---- MODULE Spec2Model ----
(***************************************************************************)
(* A model of the vibefoundry sandbox front end:                           *)
(*   - the codespace synchronizer (frontend/src/utils/codespaceSync.js):   *)
(*     pull (syncScriptsToLocal), push (pushScriptsToCodespace,            *)
(*     collectFilesRecursive, uploadScript);                               *)
(*   - the tree scanner (frontend/src/utils/fileSystem.js);                *)
(*   - the script runner, in its two variants (the queueing one and the    *)
(*     auto-run one of frontend/src/components/ScriptRunner.jsx).          *)
(*                                                                         *)
(* A file name is the sequence of its '.'-separated pieces, "report.PDF"   *)
(* being <<"report", "PDF">>, and a path is the sequence of its            *)
(* '/'-separated names: split('.') and split('/') are then computed, not   *)
(* assumed.  Times are counted in ticks, TicksPerSecond to the second, so  *)
(* that Math.floor has something to round.                                 *)
(***************************************************************************)
EXTENDS Integers, Sequences, FiniteSets, TLC

\* ------------------------------------------------------------ bounds

\* Ticks in one second (the resolution of the remote's modification times).
TicksPerSecond == 2
\* The latest modification time, in ticks.
MaxTime == 2
\* How many times the remote's files are edited in one behaviour.
MaxEdits == 1
\* How many files app_folder holds at the start.
MaxLocalFiles == 3
\* How many direct uploadScript calls are made in one behaviour.
MaxDirectCalls == 1

\* ------------------------------------------------------------ names

Last(s) == s[Len(s)]
Front(s) == SubSeq(s, 1, Len(s) - 1)
IsPrefix(s, t) == Len(s) <= Len(t) /\ SubSeq(t, 1, Len(s)) = s

\* String.prototype.toLowerCase on the name pieces the model uses.
toLowerCase(s) ==
  CASE s = "PDF" -> "pdf"
    [] s = "CSV" -> "csv"
    [] s = "JSON" -> "json"
    [] s = "TXT" -> "txt"
    [] s = "XLS" -> "xls"
    [] s = "PNG" -> "png"
    [] s = "CLAUDE" -> "claude"
    [] s = "README" -> "readme"
    [] OTHER -> s

\* The paths of the model, relative to app_folder.
P_a == << <<"a", "py">> >>
P_x == << <<"scripts">>, <<"x", "py">> >>
P_csv == << <<"data", "csv">> >>
P_server == << <<"sync_server", "py">> >>
P_serverjs == << <<"sync_server", "js">> >>
P_farmer == << <<"metadatafarmer", "py">> >>
P_farmertxt == << <<"metadatafarmer", "txt">> >>
P_claude == << <<"CLAUDE", "md">> >>
P_meta == << <<"meta_data">>, <<"input_metadata", "txt">> >>
P_deepmeta == << <<"scripts">>, <<"meta_data">>, <<"n", "py">> >>
P_pdf == << <<"docs">>, <<"report", "PDF">> >>
P_env == << <<"", "env">> >>
P_json == << <<"cfg", "json">> >>
P_module == << <<"node_modules">>, <<"m", "js">> >>
P_metaout == << <<"meta_data">>, <<"output_metadata", "txt">> >>

\* Every path, in the order in which a directory listing enumerates them.
PathSeq ==
  << P_a, P_x, P_csv, P_server, P_serverjs, P_farmer, P_farmertxt, P_claude,
     P_meta, P_deepmeta, P_pdf, P_env, P_module, P_json >>
Paths == {PathSeq[i] : i \in 1..Len(PathSeq)}
\* The files the remote holds before any push.
RemoteSeed == {P_a, P_csv}
\* The files uploadScript is called for directly.
DirectPaths == {P_a, P_pdf, P_csv, P_server}
\* The files app_folder holds at the start of a pull-and-push behaviour.
LocalSeed == {P_x, P_server}

Times == 0..MaxTime
Contents == {"v1", "v2", "local", ""}
\* A text of more than 50 KiB, and file.size of a text.
BigText == "big"
TextSize(content) == IF content = BigText THEN 50 * 1024 + 1 ELSE 0

\* s with the paths of S in PathSeq order.
RECURSIVE InOrder(_, _)
InOrder(S, i) ==
  IF i > Len(PathSeq) THEN <<>>
  ELSE (IF PathSeq[i] \in S THEN <<PathSeq[i]>> ELSE <<>>) \o InOrder(S, i + 1)

Range(s) == {s[i] : i \in 1..Len(s)}

\* f with key k set to v (a JavaScript object assignment obj[k] = v).
Put(f, k, v) == [q \in DOMAIN f \cup {k} |-> IF q = k THEN v ELSE f[q]]

\* The one element of a set of one: The({e(x) : x \in {v}}) is e(v), with v
\* computed once.
The(S) == CHOOSE y \in S : TRUE

\* An object with no key.
EmptyMap == [q \in {} |-> 0]

\* ------------------------------------------------------------ state

VARIABLES
  \* the synchronizer
  remote,        \* the codespace's files: path -> [modified, content]
  appFolder,     \* the local app_folder's files: path -> content
  lastSync,      \* the sync vector the caller keeps: path -> modification time
  edits,         \* edits of the remote's files so far
  pullPc,        \* syncScriptsToLocal: "idle", "fetch", "write", "returned", "thrown"
  scripts,       \* its listing, a sequence of [path, modified]
  idx,           \* the listing entry the loop is at
  newLastSync,   \* its newLastSync
  syncedFiles,   \* its syncedFiles
  scriptData,    \* the content getScript answered
  pullFetched,   \* the paths this pull has fetched
  pullWritten,   \* the paths this pull has written
  pullResult,    \* what the call gave its caller
  prevPull,      \* the listing of the last pull that returned
  fresh,         \* this pull repeats the last one: same listing, its vector
  pushPc,        \* pushScriptsToCodespace: "idle", "upload", "returned", "thrown"
  files,         \* the files collectFilesRecursive collected, [path, content]
  pushIdx,       \* the file the upload loop is at
  pushedFiles,   \* its pushedFiles
  pushResult,    \* what the call gave its caller
  uploads,       \* the paths of the upload requests issued
  uploadCall,    \* the last direct uploadScript call: [path, outcome]
  directCalls,   \* direct uploadScript calls so far
  \* the tree scanner
  disk,          \* the project folder's files: path -> size in bytes
  dirs,          \* its directories, as paths
  creates,       \* files created in the project folder so far
  tree,          \* the node the last scan returned
  deletedFiles,  \* the deletedFiles the last scan returned
  scanned,       \* the files the last scan found: path -> size
  scanIo,        \* the last scan's failures: [failDelete, unreadable], sets of paths
  modified,      \* the files' modification times: path -> time
  quiet,         \* nothing outside the application has changed a file since the last scan
  shownTree,     \* App's tree state: the array of root nodes shown
  treeReplaced,  \* the last poll gave App a new tree array
  \* the script runner
  scriptQueue,   \* scriptQueueRef.current: the paths waiting
  isRunningRef,  \* isRunningRef.current
  isRunning,     \* the isRunning state, which disables the Run and approve buttons
  inFlight,      \* the run requests not yet answered: [path, rest], rest being
                 \* what the answering loop of runScripts still has to run
  pendingScripts,         \* the changed scripts waiting for approval
  checkedPendingScripts,  \* those of them that are checked
  showPendingModal,
  installModal,  \* [show, scriptPath]
  installing,    \* handleInstallModule under way: [active, scriptPath]
  autoRun,       \* the Auto checkbox
  started,       \* every run started, in order
  enqueued,      \* every path accepted for running, in order
  lastBatch,     \* the last queueScripts call: [paths, idle, at]
  submits,       \* submissions so far
  \* the full sync
  remoteMeta,    \* the metadata the codespace holds: [input, output]
  fullPc,        \* runFullSync: "idle", "pull", "returned"
  fullResult,    \* the result it returned
  fullStart,     \* what it started from: [remote, appFolder, lastSync, remoteMeta]
  \* the missing-module detection
  runAnswer,     \* the last answer to a run request: [ok, success, timed_out, stderr]
  offered,       \* the install modal runSingleScript has set for it: [show, module]
  \* a terminal component
  termKind,      \* which component it is
  termMounted,   \* it exists
  termProps,     \* [syncUrl, enabled (isConnected, or isExpanded), autoLaunchClaude]
  sockets,       \* the WebSockets it has created, in order
  xtermGen,      \* how many xterms it has created
  xtermLive,     \* the latest xterm is not disposed
  display,       \* what that xterm has been given to show
  isTerminalConnected,
  hasLaunchedClaudeRef,
  effectWs,      \* the socket of the effect now in force, 0 if none
  received,      \* messages received so far
  keys,          \* keystrokes so far
  \* the time keeper
  timeKeeper,    \* the lines of scripts/time_keeper.txt on the remote (none: no file)
  calls,         \* the calls of writeTimeKeeper so far
  keeperInterval,\* the interval of the time keeper effect is set
  \* the folder selection
  serverProject,  \* the project folder the server works on
  projectPath,  \* App's projectPath state
  folderName,  \* App's folderName state
  selectedTree,  \* the project whose tree handleFolderSelected has put in App's tree state
  selCalls,  \* the calls of handleFolderSelected so far
  pullProject, \* the projectPath under which the pull in flight was started
  \* the classifier
  probe,  \* the file handle given to shouldDeleteFile, [name, size, readable]
  verdict, \* what it answered, if it has
  \* the auto-preview
  pendingPreviewFiles,  \* the files collected in the debounce window
  autoPreviewDebounceRef,  \* the debounce timer is set
  reported,  \* the output files reported since the window began, in order
  bestFile, \* the file the last closing of the window gave to loadOutputFile, if any
  \* the terminal list
  terminalIdCounter,  \* the module's terminalIdCounter
  terminals,  \* the ids of the terminals state, in order
  activeTerminalId, \* the activeTerminalId state
  \* the watch effect
  watchEffect,  \* the run of the watch effect now in force, 0 if none
  watchGen,  \* how many times the watch effect has run
  watchSockets,  \* the /ws/watch sockets the component has created: [effect, state, timer, late]
  wsRef,  \* wsRef.current, an index of watchSockets, 0 if none
  handled, \* how many times the component handled the last change event
  \* the auto-sync
  selectedUrl,  \* CodespaceSync's syncUrl state, the codespace selected
  isSyncing,  \* its isSyncing state
  effectIsSyncing,  \* isSyncing as the handleSync of the auto-sync interval sees it
  autoSyncOn,  \* the auto-sync interval is set
  syncCalls,  \* the /api/sync/full requests made so far: [url, state]
  applied,  \* the requests whose response was taken, in the order taken
  lastSyncFrom, \* where lastSyncRef.current comes from: nothing (empty vector), or the codespace of the response it was taken from
  \* the preview loader
  isAutoPreviewingRef,  \* isAutoPreviewingRef.current
  loadingFile,  \* the file whose /api/files/read is awaited, if any
  pendingFilePath,  \* the closure's pendingFilePath, empty for null
  retryTimers,  \* the files of the 300 ms timers that are set
  selectedFile,  \* the path of App's selectedFile state
  lastRequested,  \* the file of the last call the debounce made
  loadRequests,  \* the calls the debounce has made
  inFlightLoads, \* the /api/files/read requests awaited
  \* the dataframe viewer
  rows,  \* the rows of the dataframe viewer, each with the filters and sort it was computed with
  totalRows,  \* the row count of the last response
  isLoadingMore,  \* a load-more request is under way
  loadedUpTo,  \* the offset of the next load-more
  filters,  \* the column filters set in the viewer, empty when none
  sortConfig,  \* the sort column set in the viewer, empty when none
  viewRequests, \* the requests of the viewer that are not answered yet
  \* connecting to the codespace
  isConnecting,  \* a connect attempt is under way
  isConnected,  \* the sync server has answered healthy
  syncStatus,  \* idle, syncing, success or error
  pollPhase,  \* where the connect attempt stands: none, starting, timer or polling
  attempts,  \* the argument of the scheduled or running pollForReady
  polls,  \* the health polls of the connect attempt so far
  connectCalls  \* the connect attempts so far

syncVars ==
  << remote, appFolder, lastSync, edits, pullPc, scripts, idx, newLastSync,
     syncedFiles, scriptData, pullFetched, pullWritten, pullResult, prevPull,
     fresh, pushPc, files, pushIdx, pushedFiles, pushResult, uploads, uploadCall,
     directCalls >>
pullVars ==
  << pullPc, scripts, idx, newLastSync, syncedFiles, scriptData, pullFetched,
     pullWritten, pullResult, prevPull, fresh >>
pushVars == << pushPc, files, pushIdx, pushedFiles, pushResult >>

scanVars ==
  << disk, dirs, creates, tree, deletedFiles, scanned, scanIo, modified, quiet, shownTree,
     treeReplaced >>

runVars ==
  << scriptQueue, isRunningRef, isRunning, inFlight, pendingScripts,
     checkedPendingScripts, showPendingModal, installModal, installing, autoRun,
     started, enqueued, lastBatch, submits >>

fullVars == << remoteMeta, fullPc, fullResult, fullStart >>

detectVars == << runAnswer, offered >>

keeperVars == << timeKeeper, calls, keeperInterval >>

termVars ==
  << termKind, termMounted, termProps, sockets, xtermGen, xtermLive, display,
     isTerminalConnected, hasLaunchedClaudeRef, effectWs, received, keys >>

selectVars == << serverProject, projectPath, folderName, selectedTree, selCalls, pullProject >>

classifyVars == << probe, verdict >>

previewVars == << pendingPreviewFiles, autoPreviewDebounceRef, reported, bestFile >>

tabsVars == << terminalIdCounter, terminals, activeTerminalId >>

watchVars == << watchEffect, watchGen, watchSockets, wsRef, handled >>

autoSyncVars == << selectedUrl, isSyncing, effectIsSyncing, autoSyncOn, syncCalls, applied, lastSyncFrom >>

loadVars == << isAutoPreviewingRef, loadingFile, pendingFilePath, retryTimers, selectedFile, lastRequested, loadRequests, inFlightLoads >>

viewVars == << rows, totalRows, isLoadingMore, loadedUpTo, filters, sortConfig, viewRequests >>

connectVars == << isConnecting, isConnected, syncStatus, pollPhase, attempts, polls, connectCalls >>

\* What the full sync leaves alone, besides the synchronizer, scanner and runner.
besideFull == << detectVars, termVars, keeperVars, selectVars, classifyVars, previewVars, tabsVars, watchVars, autoSyncVars, loadVars, viewVars, connectVars >>
\* What the missing-module detection leaves alone, besides them.
besideDetect == << fullVars, termVars, keeperVars, selectVars, classifyVars, previewVars, tabsVars, watchVars, autoSyncVars, loadVars, viewVars, connectVars >>
\* What a terminal leaves alone, besides them.
besideTerm == << fullVars, detectVars, keeperVars, selectVars, classifyVars, previewVars, tabsVars, watchVars, autoSyncVars, loadVars, viewVars, connectVars >>
\* What the time keeper leaves alone, besides them.
besideKeeper == << fullVars, detectVars, termVars, selectVars, classifyVars, previewVars, tabsVars, watchVars, autoSyncVars, loadVars, viewVars, connectVars >>

\* What the folder selection leaves alone, besides the synchronizer, scanner and runner.
besideSelect == << fullVars, detectVars, termVars, keeperVars, classifyVars, previewVars, tabsVars, watchVars, autoSyncVars, loadVars, viewVars, connectVars >>

\* What the classifier leaves alone, besides the synchronizer, scanner and runner.
besideClassify == << fullVars, detectVars, termVars, keeperVars, selectVars, previewVars, tabsVars, watchVars, autoSyncVars, loadVars, viewVars, connectVars >>

\* What the auto-preview leaves alone, besides the synchronizer, scanner and runner.
besidePreview == << fullVars, detectVars, termVars, keeperVars, selectVars, classifyVars, tabsVars, watchVars, autoSyncVars, loadVars, viewVars, connectVars >>

\* What the terminal list leaves alone, besides the synchronizer, scanner and runner.
besideTabs == << fullVars, detectVars, termVars, keeperVars, selectVars, classifyVars, previewVars, watchVars, autoSyncVars, loadVars, viewVars, connectVars >>

\* What the watch effect leaves alone, besides the synchronizer, scanner and runner.
besideWatch == << fullVars, detectVars, termVars, keeperVars, selectVars, classifyVars, previewVars, tabsVars, autoSyncVars, loadVars, viewVars, connectVars >>

\* What the auto-sync leaves alone, besides the synchronizer, scanner and runner.
besideAutoSync == << fullVars, detectVars, termVars, keeperVars, selectVars, classifyVars, previewVars, tabsVars, watchVars, loadVars, viewVars, connectVars >>

\* What the preview loader leaves alone, besides the synchronizer, scanner and runner.
besideLoad == << fullVars, detectVars, termVars, keeperVars, selectVars, classifyVars, previewVars, tabsVars, watchVars, autoSyncVars, viewVars, connectVars >>

\* What the dataframe viewer leaves alone, besides the synchronizer, scanner and runner.
besideView == << fullVars, detectVars, termVars, keeperVars, selectVars, classifyVars, previewVars, tabsVars, watchVars, autoSyncVars, loadVars, connectVars >>

\* What connecting to the codespace leaves alone, besides the synchronizer, scanner and runner.
besideConnect == << fullVars, detectVars, termVars, keeperVars, selectVars, classifyVars, previewVars, tabsVars, watchVars, autoSyncVars, loadVars, viewVars >>

\* What the synchronizer, the scanner and the runner leave alone.
otherVars == << fullVars, detectVars, termVars, keeperVars, selectVars, classifyVars, previewVars, tabsVars, watchVars, autoSyncVars, loadVars, viewVars, connectVars >>

vars == << syncVars, scanVars, runVars, otherVars >>

\* ------------------------------------------------------------ pull

\* Math.floor of a time, to whole seconds.
Floor(t) == (t \div TicksPerSecond) * TicksPerSecond

\* !lastMod: the entry is missing (undefined) or is 0.
Falsy(v, p) == p \notin DOMAIN v \/ v[p] = 0

\* const localMod = lastMod ? Math.floor(lastMod) : 0
LocalMod(v, p) == IF Falsy(v, p) THEN 0 ELSE Floor(v[p])

\* if (!lastMod || localMod < serverMod): download.
NeedsDownload(v, e) == Falsy(v, e.path) \/ LocalMod(v, e.path) < Floor(e.modified)

\* A slip: the entry of a file that is not downloaded follows the remote's time.
KeptEntry_follows(lastMod, serverMod) == serverMod

\* newLastSync[filePath] = lastMod, the entry of a file that is not downloaded.
KeptEntry(lastMod, serverMod) == lastMod

\* listScripts: the remote's listing.
listScripts(r) ==
  LET s == InOrder(DOMAIN r, 1)
  IN [i \in 1..Len(s) |-> [path |-> s[i], modified |-> r[s[i]].modified]]

\* The for loop from entry i on, up to the next download (an await) or the end:
\* the entries it passes keep their vector entry.
RECURSIVE PullLoop(_, _, _, _)
PullLoop(scr, last, new, i) ==
  IF i > Len(scr) \/ NeedsDownload(last, scr[i])
  THEN [idx |-> i, newLastSync |-> new]
  ELSE PullLoop(scr, last,
                Put(new, scr[i].path, KeptEntry(last[scr[i].path], Floor(scr[i].modified))),
                i + 1)

NoResult == [ok |-> FALSE, lastSync |-> EmptyMap, syncedFiles |-> <<>>]

\* A slip: the catch returns what was done so far.
ThrownResult_partial(new, synced) == [ok |-> TRUE, lastSync |-> new, syncedFiles |-> synced]

\* What syncScriptsToLocal gives its caller when it fails: catch (err) { throw err }.
ThrownResult(new, synced) == NoResult

\* The loop has reached entry st.idx: the next fetch, or the return.
PullContinue(scr, st, synced) ==
  /\ idx' = st.idx
  /\ newLastSync' = st.newLastSync
  /\ syncedFiles' = synced
  /\ IF st.idx > Len(scr)
     THEN /\ pullPc' = "returned"
          /\ pullResult' = [ok |-> TRUE, lastSync |-> st.newLastSync, syncedFiles |-> synced]
     ELSE /\ pullPc' = "fetch"
          /\ pullResult' = NoResult

PullThrow ==
  /\ pullPc' = "thrown"
  /\ pullResult' = ThrownResult(newLastSync, syncedFiles)

\* syncScriptsToLocal is called with the caller's vector; listScripts answers or fails.
PullStartTaken(ok) ==
  /\ pullPc = "idle"
  /\ pullFetched' = {}
  /\ pullWritten' = {}
  /\ scriptData' = ""
  /\ IF ok
     THEN LET scr == listScripts(remote)
          IN /\ scripts' = scr
             /\ fresh' = (prevPull.valid /\ prevPull.listing = scr)
             /\ PullContinue(scr, PullLoop(scr, lastSync, lastSync, 1), <<>>)
     ELSE /\ scripts' = <<>>
          /\ fresh' = FALSE
          /\ idx' = 1
          /\ newLastSync' = lastSync
          /\ syncedFiles' = <<>>
          /\ pullPc' = "thrown"
          /\ pullResult' = ThrownResult(lastSync, <<>>)
  /\ UNCHANGED << remote, appFolder, lastSync, edits, prevPull, pushVars, uploads, uploadCall, directCalls, scanVars, runVars >>

PullStart(ok) ==
  /\ PullStartTaken(ok)
  /\ UNCHANGED otherVars

\* getScript answers (the file is still on the remote) or fails.
PullFetched(ok) ==
  /\ pullPc = "fetch"
  /\ LET p == scripts[idx].path
     IN IF ok /\ p \in DOMAIN remote
        THEN /\ scriptData' = remote[p].content
             /\ pullFetched' = pullFetched \cup {p}
             /\ pullPc' = "write"
             /\ UNCHANGED pullResult
        ELSE /\ PullThrow
             /\ UNCHANGED << scriptData, pullFetched >>
  /\ UNCHANGED << remote, appFolder, lastSync, edits, scripts, idx, newLastSync,
                  syncedFiles, pullWritten, prevPull, fresh, pushVars, uploads, uploadCall, directCalls, scanVars, runVars, otherVars >>

\* A slip: the entry is set before the write is known to have worked.
AfterWrite_early(ok, new, p, serverMod) == Put(new, p, serverMod)

\* newLastSync once the write of p is over: newLastSync[filePath] = serverMod follows
\* writable.close(), and a write that throws never reaches it.
AfterWrite(ok, new, p, serverMod) == IF ok THEN Put(new, p, serverMod) ELSE new

\* The directories are made and the file written and closed, or one of these fails;
\* a failure after getFileHandle(create) leaves a new, empty file.
PullWritten(ok, created) ==
  /\ pullPc = "write"
  /\ LET e == scripts[idx]
         p == e.path
         new == AfterWrite(ok, newLastSync, p, Floor(e.modified))
     IN IF ok
        THEN /\ appFolder' = Put(appFolder, p, scriptData)
             /\ pullWritten' = pullWritten \cup {p}
             /\ PullContinue(scripts, PullLoop(scripts, lastSync, new, idx + 1),
                             Append(syncedFiles, p))
        ELSE /\ appFolder' = IF created /\ p \notin DOMAIN appFolder
                             THEN Put(appFolder, p, "") ELSE appFolder
             /\ newLastSync' = new
             /\ pullPc' = "thrown"
             /\ pullResult' = ThrownResult(new, syncedFiles)
             /\ UNCHANGED << pullWritten, idx, syncedFiles >>
  /\ UNCHANGED << remote, lastSync, edits, scripts, scriptData, pullFetched, prevPull,
                  fresh, pushVars, uploads, uploadCall, directCalls, scanVars, runVars, otherVars >>

\* runFullSync around a pull that gave pull: its result, the metadata step aside;
\* a thrown error is caught and reported, and scriptsSync stays null.
runFullSync(pull) ==
  IF pull.ok THEN [scriptsSync |-> pull, error |-> FALSE]
  ELSE [scriptsSync |-> NoResult, error |-> TRUE]

\* The caller takes the result: the returned vector becomes its vector; a thrown
\* error leaves its vector as it was.
PullTaken ==
  /\ pullPc \in {"returned", "thrown"}
  /\ pullPc' = "idle"
  /\ lastSync' = IF pullResult.ok THEN pullResult.lastSync ELSE lastSync
  /\ prevPull' = IF pullResult.ok THEN [valid |-> TRUE, listing |-> scripts] ELSE prevPull
  /\ scripts' = <<>>
  /\ idx' = 1
  /\ newLastSync' = EmptyMap
  /\ syncedFiles' = <<>>
  /\ scriptData' = ""
  /\ pullFetched' = {}
  /\ pullWritten' = {}
  /\ pullResult' = NoResult
  /\ fresh' = FALSE

PullAccept ==
  /\ PullTaken
  /\ UNCHANGED << remote, appFolder, edits, pushVars, uploads, uploadCall, directCalls, scanVars, runVars, otherVars >>

\* The codespace edits, touches or removes one of its files.
RemoteEdit(p, t) ==
  /\ edits < MaxEdits
  /\ edits' = edits + 1
  /\ remote' = Put(remote, p,
                   [modified |-> t,
                    content |-> IF p \in DOMAIN remote /\ remote[p].content = "v1"
                                THEN "v2" ELSE "v1"])
  /\ UNCHANGED << appFolder, lastSync, pullVars, pushVars, uploads, uploadCall, directCalls, scanVars, runVars, otherVars >>

RemoteDelete(p) ==
  /\ edits < MaxEdits
  /\ p \in DOMAIN remote
  /\ edits' = edits + 1
  /\ remote' = [q \in DOMAIN remote \ {p} |-> remote[q]]
  /\ UNCHANGED << appFolder, lastSync, pullVars, pushVars, uploads, uploadCall, directCalls, scanVars, runVars, otherVars >>

\* ------------------------------------------------------------ push

\* The extensions that never leave (FORBIDDEN_SYNC_EXTENSIONS, without the dot
\* that shouldBlockSync puts before the piece it compares).
FORBIDDEN_SYNC_EXTENSIONS == {"pdf", "csv", "xlsx", "xls", "xlsm", "xlsb", "ppt", "pptx"}

\* A piece of a path that holds a '/': it is no extension of any list.
SlashPiece == "<dir>/<name>"

\* filename.split('.').pop() of a path: the text after its last '.', or all of it.
LastPiece(path) ==
  LET nm == Last(path)
  IN IF Len(nm) > 1 THEN Last(nm)
     ELSE IF Len(path) = 1 THEN nm[1] ELSE SlashPiece

\* A slip: the extension is compared as written, not in lower case.
shouldBlockSync_cased(filename) ==
  LastPiece(filename) \in FORBIDDEN_SYNC_EXTENSIONS

\* shouldBlockSync(filename), on a name or on a path.
shouldBlockSync(filename) ==
  toLowerCase(LastPiece(filename)) \in FORBIDDEN_SYNC_EXTENSIONS

PROTECTED_FILES == { <<"sync_server", "py">>, <<"metadatafarmer", "py">>, <<"CLAUDE", "md">> }
PROTECTED_DIRS == { <<"meta_data">> }

\* entry.name.startsWith(".") || entry.name === "node_modules" || protectedDirs.includes(entry.name)
SkippedEntry(name, protectedDirs) ==
  \/ name[1] = ""
  \/ name = <<"node_modules">>
  \/ name \in protectedDirs

\* A slip: the protected names are not looked at.
KeptFile_unprotected(name, protectedFiles) == ~shouldBlockSync(<<name>>)

\* if (protectedFiles.includes(entry.name)) continue; if (shouldBlockSync(entry.name)) continue
KeptFile(name, protectedFiles) ==
  /\ name \notin protectedFiles
  /\ ~shouldBlockSync(<<name>>)

\* collectFilesRecursive(dirHandle, prefix, protectedFiles, protectedDirs) over the
\* files fs of app_folder: the paths it collects.
RECURSIVE collectFilesRecursive(_, _, _, _)
collectFilesRecursive(fs, prefix, protectedFiles, protectedDirs) ==
  LET below == {q \in DOMAIN fs : IsPrefix(prefix, q) /\ Len(q) > Len(prefix)}
      entries == {q[Len(prefix) + 1] : q \in below}
      isFile(n) == (prefix \o <<n>>) \in DOMAIN fs
      seen == {n \in entries : ~SkippedEntry(n, protectedDirs)}
  IN {prefix \o <<n>> : n \in {m \in seen : isFile(m) /\ KeptFile(m, protectedFiles)}}
     \cup UNION {collectFilesRecursive(fs, prefix \o <<n>>, protectedFiles, protectedDirs) :
                   n \in {m \in seen : ~isFile(m)}}

\* The files of a push, with the content read while collecting.
CollectedFiles(fs) ==
  LET s == InOrder(collectFilesRecursive(fs, <<>>, PROTECTED_FILES, PROTECTED_DIRS), 1)
  IN [i \in 1..Len(s) |-> [path |-> s[i], content |-> fs[s[i]]]]

NoPush == [ok |-> FALSE, pushedFiles |-> <<>>]

\* What pushScriptsToCodespace gives its caller when it fails: catch (err) { throw err }.
ThrownPush(pushed) == NoPush

\* The remote after a POST /scripts/<path> it accepted: it stamps the file now.
Uploaded(r, path, content) == Put(r, path, [modified |-> MaxTime, content |-> content])

\* pushScriptsToCodespace: app_folder is found and walked, or is missing.
PushStart(ok) ==
  /\ pushPc = "idle"
  /\ IF ok
     THEN LET fl == CollectedFiles(appFolder)
          IN /\ files' = fl
             /\ pushIdx' = 1
             /\ pushedFiles' = <<>>
             /\ IF Len(fl) = 0
                THEN /\ pushPc' = "returned"
                     /\ pushResult' = [ok |-> TRUE, pushedFiles |-> <<>>]
                ELSE /\ pushPc' = "upload"
                     /\ pushResult' = NoPush
     ELSE /\ files' = <<>>
          /\ pushIdx' = 1
          /\ pushedFiles' = <<>>
          /\ pushPc' = "thrown"
          /\ pushResult' = ThrownPush(<<>>)
  /\ UNCHANGED << remote, appFolder, lastSync, edits, pullVars, uploads, uploadCall, directCalls, scanVars, runVars, otherVars >>

\* await uploadScript(baseUrl, file.path, file.content): blocked before the request,
\* or the request is made and answered ok or not.
PushUploaded(ok) ==
  /\ pushPc = "upload"
  /\ LET f == files[pushIdx]
     IN IF shouldBlockSync(f.path)
        THEN /\ pushPc' = "thrown"
             /\ pushResult' = ThrownPush(pushedFiles)
             /\ UNCHANGED << uploads, remote, pushIdx, pushedFiles >>
        ELSE /\ uploads' = uploads \cup {f.path}
             /\ IF ok
                THEN /\ remote' = Uploaded(remote, f.path, f.content)
                     /\ pushedFiles' = Append(pushedFiles, f.path)
                     /\ pushIdx' = pushIdx + 1
                     /\ IF pushIdx = Len(files)
                        THEN /\ pushPc' = "returned"
                             /\ pushResult' =
                                  [ok |-> TRUE, pushedFiles |-> Append(pushedFiles, f.path)]
                        ELSE UNCHANGED << pushPc, pushResult >>
                ELSE /\ pushPc' = "thrown"
                     /\ pushResult' = ThrownPush(pushedFiles)
                     /\ UNCHANGED << remote, pushIdx, pushedFiles >>
  /\ UNCHANGED << appFolder, lastSync, edits, pullVars, files, uploadCall, directCalls, scanVars, runVars, otherVars >>

\* The caller has its answer.
PushAccept ==
  /\ pushPc \in {"returned", "thrown"}
  /\ pushPc' = "idle"
  /\ files' = <<>>
  /\ pushIdx' = 1
  /\ pushedFiles' = <<>>
  /\ pushResult' = NoPush
  /\ UNCHANGED << remote, appFolder, lastSync, edits, pullVars, uploads, uploadCall, directCalls, scanVars, runVars, otherVars >>

\* A direct call uploadScript(baseUrl, filename, content).
UploadScript(path, ok) ==
  /\ directCalls < MaxDirectCalls
  /\ directCalls' = directCalls + 1
  /\ IF shouldBlockSync(path)
     THEN /\ uploadCall' = [path |-> path, outcome |-> "blocked"]
          /\ UNCHANGED << uploads, remote >>
     ELSE /\ uploads' = uploads \cup {path}
          /\ IF ok
             THEN /\ remote' = Uploaded(remote, path, "local")
                  /\ uploadCall' = [path |-> path, outcome |-> "uploaded"]
             ELSE /\ uploadCall' = [path |-> path, outcome |-> "failed"]
                  /\ UNCHANGED remote
  /\ UNCHANGED << appFolder, lastSync, edits, pullVars, pushVars, scanVars, runVars, otherVars >>

\* ------------------------------------------------------------ full sync

NoMeta == [input |-> "", output |-> ""]
NoFull == [sync |-> [scriptsSync |-> NoResult, error |-> FALSE], metadataSync |-> FALSE]
NoStart ==
  [remote |-> EmptyMap, appFolder |-> EmptyMap, lastSync |-> EmptyMap,
   remoteMeta |-> NoMeta, uploadOk |-> TRUE]

\* The text read from a metadata file of app_folder/meta_data: "" when the file
\* is missing.
MetadataText(fs, p) == IF p \in DOMAIN fs THEN fs[p] ELSE ""

\* syncMetadataToCodespace on the app_folder fs, the codespace holding meta: what the
\* codespace holds afterwards and the boolean returned; ok = uploadMetadata is answered.
syncMetadataToCodespace(fs, meta, ok) ==
  LET inputMetadata == MetadataText(fs, P_meta)
      outputMetadata == MetadataText(fs, P_metaout)
  IN IF (inputMetadata # "" \/ outputMetadata # "") /\ ok
     THEN [remoteMeta |-> [input |-> inputMetadata, output |-> outputMetadata],
           done |-> TRUE]
     ELSE [remoteMeta |-> meta, done |-> FALSE]

\* A slip: the metadata is read before the pull has written.
MetadataSource_before(before, after) == before

\* The app_folder syncMetadataToCodespace reads in runFullSync: it is called after
\* syncScriptsToLocal has returned.
MetadataSource(before, after) == after

\* runFullSync is called: it calls syncScriptsToLocal with the caller's vector.
FullStart ==
  /\ fullPc = "idle"
  /\ pullPc = "idle"
  /\ fullPc' = "pull"
  /\ fullStart' = [remote |-> remote, appFolder |-> appFolder, lastSync |-> lastSync,
                   remoteMeta |-> remoteMeta, uploadOk |-> TRUE]
  /\ UNCHANGED << remoteMeta, fullResult, syncVars, scanVars, runVars, besideFull >>

\* syncScriptsToLocal has returned or thrown: the metadata is synced, or the error
\* is caught and reported.
FullReturn(ok) ==
  /\ fullPc = "pull"
  /\ pullPc \in {"returned", "thrown"}
  /\ fullPc' = "returned"
  /\ IF pullResult.ok
     THEN LET m == syncMetadataToCodespace(MetadataSource(fullStart.appFolder, appFolder),
                                           remoteMeta, ok)
          IN /\ remoteMeta' = m.remoteMeta
             /\ fullResult' = [sync |-> runFullSync(pullResult), metadataSync |-> m.done]
             /\ fullStart' = [fullStart EXCEPT !.uploadOk = ok]
     ELSE /\ fullResult' = [sync |-> runFullSync(pullResult), metadataSync |-> FALSE]
          /\ UNCHANGED << remoteMeta, fullStart >>
  /\ UNCHANGED << syncVars, scanVars, runVars, besideFull >>

\* The caller of runFullSync takes the result:
\* result.scripts_sync?.last_sync || lastSyncRef.current
FullAccept ==
  /\ fullPc = "returned"
  /\ fullPc' = "idle"
  /\ fullResult' = NoFull
  /\ fullStart' = NoStart
  /\ PullTaken
  /\ UNCHANGED << remoteMeta, remote, appFolder, edits, pushVars, uploads, uploadCall,
                  directCalls, scanVars, runVars, besideFull >>

\* ------------------------------------------------------------ missing module

\* The longest stderr, in items.
MaxStderr == 2

\* The module names stderr can name, as their '.'-separated components.
ModuleNames ==
  { <<"PIL">>, <<"PIL", "Image">>, <<"cv2">>, <<"sklearn", "linear_model">>, <<"yaml">>,
    <<"numpy">>, <<"numpy", "linalg">>, <<"constructor">> }

\* What stderr is made of: other text, or a line
\* "ModuleNotFoundError: No module named 'X'".
OtherText == [kind |-> "text", module |-> <<>>]
StderrItems == {OtherText} \cup {[kind |-> "missing", module |-> m] : m \in ModuleNames}

RECURSIVE Stderrs(_)
Stderrs(n) ==
  IF n = 0 THEN {<<>>}
  ELSE Stderrs(n - 1) \cup {Append(s, x) : s \in {t \in Stderrs(n - 1) : Len(t) = n - 1}, x \in StderrItems}

\* null, and undefined
Null == "<null>"
Undefined == "<undefined>"
\* Object.prototype.constructor, which every object literal inherits.
ObjectConstructor == "<function Object>"

\* moduleMap[moduleName]
moduleMap(moduleName) ==
  CASE moduleName = "PIL" -> "pillow"
    [] moduleName = "cv2" -> "opencv-python"
    [] moduleName = "sklearn" -> "scikit-learn"
    [] moduleName = "yaml" -> "pyyaml"
    [] moduleName = "constructor" -> ObjectConstructor
    [] OTHER -> Undefined

\* detectMissingModule(stderr): the first match of the pattern, its text before the
\* first '.', and moduleMap[moduleName] || moduleName.
detectMissingModule(stderr) ==
  LET hits == {i \in 1..Len(stderr) : stderr[i].kind = "missing"}
  IN IF hits = {} THEN Null
     ELSE LET first == CHOOSE i \in hits : \A j \in hits : i <= j
              moduleName == stderr[first].module[1]
          IN IF moduleMap(moduleName) # Undefined THEN moduleMap(moduleName) ELSE moduleName

NoOffer == [show |-> FALSE, module |-> Null]
NoAnswer == [ok |-> FALSE, success |-> FALSE, timed_out |-> FALSE, stderr |-> <<>>]

\* The answers to a run request: not ok, or ok with the result of the run.
RunAnswers ==
  [ok : {FALSE}, success : {FALSE}, timed_out : {FALSE}, stderr : {<<>>}]
    \cup {a \in [ok : {TRUE}, success : BOOLEAN, timed_out : BOOLEAN, stderr : Stderrs(MaxStderr)] :
            ~(a.success /\ a.timed_out)}

\* runSingleScript after its await, with no install modal showing: the modal is set
\* only for a run that neither succeeded nor timed out and in which a module is
\* detected; otherwise it stays as it was.
RunAnswered(answer) ==
  /\ offered = NoOffer
  /\ runAnswer' = answer
  /\ offered' =
       IF answer.ok /\ ~answer.success /\ ~answer.timed_out
          /\ detectMissingModule(answer.stderr) # Null
       THEN [show |-> TRUE, module |-> detectMissingModule(answer.stderr)]
       ELSE offered
  /\ UNCHANGED << syncVars, scanVars, runVars, besideDetect >>

\* handleCancelInstall: the modal is closed, and the run it was about is over.
OfferClosed ==
  /\ offered.show
  /\ offered' = NoOffer
  /\ runAnswer' = NoAnswer
  /\ UNCHANGED << syncVars, scanVars, runVars, besideDetect >>

\* ------------------------------------------------------------ scan

\* How many files the project folder holds at the start.
MaxScanFiles == 2
\* How many files are created in the project folder in one behaviour.
MaxCreates == 1

FORBIDDEN_EXTENSIONS == {"csv", "xlsx", "xls", "json"}
MAX_TXT_SIZE_BYTES == 50 * 1024
SKIP_FOLDERS ==
  { <<"node_modules">>, <<"", "git">>, <<"__pycache__">>, <<"", "next">>,
    <<"dist">>, <<"build">>, <<"", "cache">> }

\* getExtension(filename): '.' + filename.split('.').pop().toLowerCase(), without
\* the dot.
getExtension(filename) == toLowerCase(Last(filename))

\* shouldDeleteFile(fileHandle), for a file of this name and size whose getFile()
\* answers (readable) or throws.
shouldDeleteFile(name, size, readable) ==
  IF getExtension(name) \in FORBIDDEN_EXTENSIONS THEN TRUE
  ELSE IF getExtension(name) = "txt" THEN readable /\ size > MAX_TXT_SIZE_BYTES
  ELSE FALSE

\* The name of the project folder's handle.
RootName == <<"project">>

\* The files of the model, as paths below the project folder.
F_secret == << <<"app_folder">>, <<"scripts">>, <<"secret", "csv">> >>
F_script == << <<"app_folder">>, <<"scripts">>, <<"x", "py">> >>
F_cfg == << <<"app_folder">>, <<"cfg", "JSON">> >>
F_notes == << <<"app_folder">>, <<"notes", "txt">> >>
F_out == << <<"app_folder">>, <<"build">>, <<"out", "csv">> >>
F_input == << <<"input_folder">>, <<"data", "csv">> >>
F_nested == << <<"input_folder">>, <<"app_folder">>, <<"raw", "csv">> >>
F_readme == << <<"README", "md">> >>

ScanFiles == {F_secret, F_script, F_cfg, F_notes, F_out, F_input, F_nested, F_readme}

\* The order in which a directory handle enumerates its entries.
EntryOrder ==
  << <<"x", "py">>, <<"secret", "csv">>, <<"notes", "txt">>, <<"scripts">>,
     <<"README", "md">>, <<"input_folder">>, <<"cfg", "JSON">>, <<"build">>,
     <<"app_folder">>, <<"raw", "csv">>, <<"out", "csv">>, <<"data", "csv">> >>

\* The lower-cased names of the model in the order of localeCompare.
LocaleOrder ==
  << <<"app_folder">>, <<"build">>, <<"cfg", "json">>, <<"data", "csv">>,
     <<"input_folder">>, <<"notes", "txt">>, <<"out", "csv">>, <<"raw", "csv">>,
     <<"readme", "md">>, <<"scripts">>, <<"secret", "csv">>, <<"x", "py">> >>

\* The sizes a file can have: the limit of a .txt, and one byte more.
Sizes == {MAX_TXT_SIZE_BYTES, MAX_TXT_SIZE_BYTES + 1}
SizesOf(p) == IF getExtension(Last(p)) = "txt" THEN Sizes ELSE {MAX_TXT_SIZE_BYTES + 1}

\* The directories above the files of F.
ParentDirs(F) == UNION {{SubSeq(p, 1, k) : k \in 1..(Len(p) - 1)} : p \in F}

\* name.toLowerCase()
LowerName(name) == [i \in 1..Len(name) |-> toLowerCase(name[i])]

\* a.name.toLowerCase().localeCompare(b.name.toLowerCase())
localeCompare(a, b) ==
  LET pos(n) == CHOOSE i \in 1..Len(LocaleOrder) : LocaleOrder[i] = LowerName(n)
  IN pos(a) - pos(b)

\* A slip: the comparator looks at the names only.
SortsBefore_byName(a, b) == localeCompare(a.name, b.name) < 0

\* The comparator of entries.sort is negative: a directory before a file, then
\* by name.
SortsBefore(a, b) ==
  IF a.isDir # b.isDir THEN a.isDir ELSE localeCompare(a.name, b.name) < 0

\* entries.sort(...), a stable sort: the entries of s from i on, inserted into acc.
RECURSIVE SortEntries(_, _, _)
SortEntries(s, i, acc) ==
  IF i > Len(s) THEN acc
  ELSE LET k == Cardinality({j \in 1..Len(acc) : ~SortsBefore(s[i], acc[j])})
       IN SortEntries(s, i + 1,
                      SubSeq(acc, 1, k) \o <<s[i]>> \o SubSeq(acc, k + 1, Len(acc)))

\* A slip: a forbidden file whose removal failed is listed.
KeptInTree_unlessRemoved(flagged, removed) == ~flagged \/ ~removed

\* entries.push({ name, handle }) is reached: a file that shouldDeleteFile flags is
\* never listed ("NEVER add forbidden files to tree, even if delete fails").
KeptInTree(flagged, removed) == ~flagged

\* A slip: only a removed file is reported.
Pushed_ifRemoved(flagged, removed) == flagged /\ removed

\* deletedFiles.push(name) is reached, after removeEntry or in its catch ("Still add
\* to deletedFiles for toast even if delete failed").
Pushed(flagged, removed) == flagged

\* node.children.push({ name, path, isDirectory: false, extension, ..., lastModified }),
\* where lastModified is << >> for null.
FileNode(dir, name, lastModified) ==
  [name |-> name, path |-> <<RootName>> \o dir \o <<name>>, isDirectory |-> FALSE,
   extension |-> getExtension(name), children |-> <<>>, lastModified |-> lastModified]

\* file.lastModified of handle.getFile(), null when getFile() throws.
LastModified(path, unreadable) == IF path \in unreadable THEN <<>> ELSE << modified[path] >>

\* buildFileTreeFromHandle(dirHandle, path, isAppFolder, deletedFiles) on the
\* directory dir of the files fs and directories ds, where removeEntry throws for
\* the files of failDelete and getFile() for those of unreadable.  It gives the
\* node, the names pushed on deletedFiles, and the files it removed.
RECURSIVE buildFileTreeFromHandle(_, _, _, _, _, _)
RECURSIVE BuildChildren(_, _, _, _, _, _, _, _)
buildFileTreeFromHandle(fs, ds, dir, isAppFolder, failDelete, unreadable) ==
  LET isDir(n) == (dir \o <<n>>) \in ds
      names == SelectSeq(EntryOrder, LAMBDA n : (dir \o <<n>>) \in (DOMAIN fs \cup ds))
      listed == SelectSeq(names, LAMBDA n : ~(isDir(n) /\ n \in SKIP_FOLDERS))
      flagged(n) ==
        /\ isAppFolder
        /\ ~isDir(n)
        /\ shouldDeleteFile(n, fs[dir \o <<n>>], (dir \o <<n>>) \notin unreadable)
      removed(n) == (dir \o <<n>>) \notin failDelete
      flaggedHere == SelectSeq(listed, LAMBDA n : flagged(n))
      pushedHere == SelectSeq(listed, LAMBDA n : Pushed(flagged(n), removed(n)))
      kept == SelectSeq(listed, LAMBDA n : KeptInTree(flagged(n), removed(n)))
      entries == SortEntries([i \in 1..Len(kept) |-> [name |-> kept[i], isDir |-> isDir(kept[i])]],
                             1, <<>>)
  IN The({ [node |-> [name |-> IF dir = <<>> THEN RootName ELSE Last(dir),
                       path |-> <<RootName>> \o dir,
                       isDirectory |-> TRUE,
                       children |-> below.children],
             deletedFiles |-> pushedHere \o below.deletedFiles,
             removed |-> {dir \o <<flaggedHere[i]>> :
                            i \in {j \in 1..Len(flaggedHere) : removed(flaggedHere[j])}}
                           \cup below.removed] :
           below \in {BuildChildren(fs, ds, dir, isAppFolder, failDelete, unreadable, entries, 1)} })

\* The second loop of buildFileTreeFromHandle, from entry i on.
BuildChildren(fs, ds, dir, isAppFolder, failDelete, unreadable, entries, i) ==
  IF i > Len(entries)
  THEN [children |-> <<>>, deletedFiles |-> <<>>, removed |-> {}]
  ELSE LET e == entries[i]
           enteringAppFolder == isAppFolder \/ e.name = <<"app_folder">>
       IN The({ IF e.isDir
                THEN The({ [children |-> <<sub.node>> \o rest.children,
                            deletedFiles |-> sub.deletedFiles \o rest.deletedFiles,
                            removed |-> sub.removed \cup rest.removed] :
                           sub \in {buildFileTreeFromHandle(fs, ds, dir \o <<e.name>>,
                                                            enteringAppFolder, failDelete,
                                                            unreadable)} })
                ELSE [children |-> <<FileNode(dir, e.name,
                                               LastModified(dir \o <<e.name>>, unreadable))>>
                                     \o rest.children,
                      deletedFiles |-> rest.deletedFiles,
                      removed |-> rest.removed] :
                rest \in {BuildChildren(fs, ds, dir, isAppFolder, failDelete, unreadable,
                                        entries, i + 1)} })

\* No scan has returned yet.
NoTree == [name |-> <<>>, path |-> <<>>, isDirectory |-> TRUE, children |-> <<>>]

\* The files a scan calls removeEntry for: those it removes when no call throws.
Attempted(fs, ds, unreadable) ==
  buildFileTreeFromHandle(fs, ds, <<>>, FALSE, {}, unreadable).removed

\* The files whose size a scan may ask for (shouldDeleteFile calls getFile() for a
\* .txt only).
Measured(fs) == {p \in DOMAIN fs : getExtension(Last(p)) = "txt"}

\* One scan of the project folder: buildFileTreeFromHandle(rootHandle).
ScanTaken(failDelete, unreadable) ==
  /\ \E r \in {buildFileTreeFromHandle(disk, dirs, <<>>, FALSE, failDelete, unreadable)} :
        /\ tree' = r.node
        /\ deletedFiles' = r.deletedFiles
        /\ disk' = [p \in DOMAIN disk \ r.removed |-> disk[p]]
  /\ scanned' = disk
  /\ scanIo' = [failDelete |-> failDelete, unreadable |-> unreadable]
  /\ quiet' = TRUE
  /\ UNCHANGED << dirs, creates, modified, syncVars, runVars, otherVars >>

Scan(failDelete, unreadable) ==
  /\ ScanTaken(failDelete, unreadable)
  /\ UNCHANGED << shownTree, treeReplaced >>

\* getTreeHash(nodes): the entries `${item.path}:${item.lastModified || 0}` of all
\* nodes, sorted and joined; two hashes are equal when they hold the same entries as
\* often.
HashEntry(item) ==
  << item.path, IF item.isDirectory \/ item.lastModified = <<>> THEN 0 ELSE item.lastModified[1] >>

RECURSIVE Collect(_)
Collect(items) ==
  IF items = <<>> THEN <<>>
  ELSE << HashEntry(items[1]) >> \o Collect(items[1].children) \o Collect(Tail(items))

\* entries.sort().join('|'), as the entries with how often each occurs.
SortJoin(entries) ==
  [e \in Range(entries) |-> Cardinality({i \in 1..Len(entries) : entries[i] = e})]

getTreeHash(nodes) == SortJoin(Collect(nodes))

\* A slip: the poll always takes the new tree.
TreeChanged_always(oldHash, newHash) == TRUE

\* oldHash !== newHash
TreeChanged(oldHash, newHash) == oldHash # newHash

\* poll: the tree is scanned afresh and setTree keeps prevTree unless the hashes differ.
Poll(failDelete, unreadable) ==
  /\ ScanTaken(failDelete, unreadable)
  /\ treeReplaced' = TreeChanged(getTreeHash(shownTree), getTreeHash(<< tree' >>))
  /\ shownTree' = IF treeReplaced' THEN << tree' >> ELSE shownTree

\* Something outside the application writes to a file of the project folder.
TouchFile(p) ==
  /\ creates < MaxCreates
  /\ p \in DOMAIN disk
  /\ creates' = creates + 1
  /\ modified' = [modified EXCEPT ![p] = @ + 1]
  /\ quiet' = FALSE
  /\ UNCHANGED << disk, dirs, tree, deletedFiles, scanned, scanIo, shownTree, treeReplaced,
                  syncVars, runVars, otherVars >>

\* Something outside the application puts a file in the project folder.
CreateFile(p, size) ==
  /\ creates < MaxCreates
  /\ p \notin DOMAIN disk
  /\ creates' = creates + 1
  /\ disk' = Put(disk, p, size)
  /\ dirs' = dirs \cup ParentDirs({p})
  /\ quiet' = FALSE
  /\ UNCHANGED << tree, deletedFiles, scanned, scanIo, modified, shownTree, treeReplaced,
                  syncVars, runVars, otherVars >>

\* ------------------------------------------------------------ run

\* How many submissions (queueScripts or runScripts calls) one behaviour makes.
MaxSubmits == 2
\* The longest array of paths a call is given.
MaxBatch == 3

S_a == "a.py"
S_b == "b.py"
ScriptPaths == {S_a, S_b}

\* The arrays of up to n paths.
RECURSIVE Arrays(_)
Arrays(n) ==
  IF n = 0 THEN {<<>>}
  ELSE Arrays(n - 1) \cup {Append(s, p) : s \in {t \in Arrays(n - 1) : Len(t) = n - 1}, p \in ScriptPaths}

\* The arrays a Set gives (Array.from(selectedScripts)): no path twice.
Selections == {s \in Arrays(Cardinality(ScriptPaths)) : \A i, j \in 1..Len(s) : s[i] = s[j] => i = j}

\* A slip: nothing is ever found in the array.
includes_never(arr, path) == FALSE

\* arr.includes(path)
includes(arr, path) == \E i \in 1..Len(arr) : arr[i] = path

\* The for loop of queueScripts from entry i on: push unless the queue includes the path.
RECURSIVE PushAll(_, _, _)
PushAll(queue, scriptPaths, i) ==
  IF i > Len(scriptPaths) THEN queue
  ELSE PushAll(IF includes(queue, scriptPaths[i]) THEN queue ELSE Append(queue, scriptPaths[i]),
               scriptPaths, i + 1)

\* runSingleScript(scriptPath) up to its await: the run request is made.
RunRequest(path, rest) == [path |-> path, rest |-> rest]

\* queueScripts(scriptPaths), with the processQueue() it ends in up to its first await.
queueScripts(scriptPaths) ==
  LET queue == PushAll(scriptQueue, scriptPaths, 1)
  IN /\ submits < MaxSubmits
     /\ submits' = submits + 1
     /\ enqueued' = enqueued \o SubSeq(queue, Len(scriptQueue) + 1, Len(queue))
     /\ lastBatch' = [paths |-> scriptPaths,
                      idle |-> ~isRunningRef /\ scriptQueue = <<>> /\ inFlight = <<>>,
                      at |-> Len(started)]
     /\ IF isRunningRef \/ Len(queue) = 0
        THEN /\ scriptQueue' = queue
             /\ UNCHANGED << isRunningRef, isRunning, inFlight, started >>
        ELSE /\ isRunningRef' = TRUE
             /\ isRunning' = TRUE
             /\ scriptQueue' = Tail(queue)
             /\ inFlight' = Append(inFlight, RunRequest(Head(queue), <<>>))
             /\ started' = Append(started, Head(queue))

\* A call queueScripts(scriptPaths) with any array.
QueueScripts(scriptPaths) ==
  /\ queueScripts(scriptPaths)
  /\ UNCHANGED << pendingScripts, checkedPendingScripts, showPendingModal, installModal,
                  installing, autoRun, syncVars, scanVars, otherVars >>

\* handleRun, behind its button (disabled={isRunning || selectedScripts.size === 0}):
\* runScripts(Array.from(selectedScripts)).
HandleRun(selected) ==
  /\ ~isRunning
  /\ Len(selected) > 0
  /\ queueScripts(selected)
  /\ UNCHANGED << pendingScripts, checkedPendingScripts, showPendingModal, installModal,
                  installing, autoRun, syncVars, scanVars, otherVars >>

\* ws.onmessage with a script_change: the path joins the pending scripts, checked.
ScriptChange(scriptPath) ==
  /\ pendingScripts' = IF includes(pendingScripts, scriptPath) THEN pendingScripts
                       ELSE Append(pendingScripts, scriptPath)
  /\ checkedPendingScripts' = checkedPendingScripts \cup {scriptPath}
  /\ showPendingModal' = TRUE
  /\ UNCHANGED << scriptQueue, isRunningRef, isRunning, inFlight, installModal, installing,
                  autoRun, started, enqueued, lastBatch, submits, syncVars, scanVars, otherVars >>

\* togglePendingScript, on a script the modal lists.
TogglePendingScript(scriptPath) ==
  /\ showPendingModal
  /\ includes(pendingScripts, scriptPath)
  /\ checkedPendingScripts' = IF scriptPath \in checkedPendingScripts
                              THEN checkedPendingScripts \ {scriptPath}
                              ELSE checkedPendingScripts \cup {scriptPath}
  /\ UNCHANGED << scriptQueue, isRunningRef, isRunning, inFlight, pendingScripts,
                  showPendingModal, installModal, installing, autoRun, started, enqueued,
                  lastBatch, submits, syncVars, scanVars, otherVars >>

\* handleApprovePending, behind its button
\* (disabled={isRunning || checkedPendingScripts.size === 0}).
HandleApprovePending ==
  /\ showPendingModal
  /\ ~isRunning
  /\ checkedPendingScripts # {}
  /\ LET scriptsToRun == SelectSeq(pendingScripts, LAMBDA q : q \in checkedPendingScripts)
     IN IF Len(scriptsToRun) > 0
        THEN queueScripts(scriptsToRun)
        ELSE UNCHANGED << scriptQueue, isRunningRef, isRunning, inFlight, started, enqueued,
                          lastBatch, submits >>
  /\ pendingScripts' = <<>>
  /\ checkedPendingScripts' = {}
  /\ showPendingModal' = FALSE
  /\ UNCHANGED << installModal, installing, autoRun, syncVars, scanVars, otherVars >>

\* handleDismissPending
HandleDismissPending ==
  /\ showPendingModal
  /\ pendingScripts' = <<>>
  /\ checkedPendingScripts' = {}
  /\ showPendingModal' = FALSE
  /\ UNCHANGED << scriptQueue, isRunningRef, isRunning, inFlight, installModal, installing,
                  autoRun, started, enqueued, lastBatch, submits, syncVars, scanVars, otherVars >>

NoModal == [show |-> FALSE, scriptPath |-> ""]
NotInstalling == [active |-> FALSE, scriptPath |-> ""]

\* How a run request ends: the script succeeded, timed out, failed, failed for a
\* missing module, the response was not ok, or fetch (or reading the response) threw.
RunOutcomes == {"success", "timed_out", "failed", "missing_module", "not_ok", "thrown"}

\* A slip: an error thrown in runSingleScript leaves it.
Continues_unlessThrown(outcome) == outcome # "thrown"

\* runSingleScript returns to the while loop of processQueue: its try/catch takes
\* every error.
Continues(outcome) == TRUE

\* The i-th run request ends with outcome: runSingleScript reports, asks for an
\* install when a module is missing, and the while loop of processQueue goes on.
RunEnded(i, outcome) ==
  /\ i \in 1..Len(inFlight)
  /\ installModal' = IF outcome = "missing_module"
                     THEN [show |-> TRUE, scriptPath |-> inFlight[i].path]
                     ELSE installModal
  /\ IF ~Continues(outcome)
     THEN /\ inFlight' = SubSeq(inFlight, 1, i - 1) \o SubSeq(inFlight, i + 1, Len(inFlight))
          /\ UNCHANGED << scriptQueue, started, isRunningRef, isRunning >>
     ELSE IF Len(scriptQueue) > 0
     THEN /\ scriptQueue' = Tail(scriptQueue)
          /\ inFlight' = [inFlight EXCEPT ![i] = RunRequest(Head(scriptQueue), <<>>)]
          /\ started' = Append(started, Head(scriptQueue))
          /\ UNCHANGED << isRunningRef, isRunning >>
     ELSE /\ isRunningRef' = FALSE
          /\ isRunning' = FALSE
          /\ inFlight' = SubSeq(inFlight, 1, i - 1) \o SubSeq(inFlight, i + 1, Len(inFlight))
          /\ UNCHANGED << scriptQueue, started >>
  /\ UNCHANGED << pendingScripts, checkedPendingScripts, showPendingModal, installing,
                  autoRun, enqueued, lastBatch, submits, syncVars, scanVars, otherVars >>

\* The i-th run request is answered with a verdict: a module is missing, or not.
RunComplete(i, missingModule) ==
  RunEnded(i, IF missingModule THEN "missing_module" ELSE "failed")

\* handleInstallModule up to its await, behind its button (disabled={isInstalling}).
InstallStart ==
  /\ installModal.show
  /\ ~installing.active
  /\ installing' = [active |-> TRUE, scriptPath |-> installModal.scriptPath]
  /\ UNCHANGED << scriptQueue, isRunningRef, isRunning, inFlight, pendingScripts,
                  checkedPendingScripts, showPendingModal, installModal, autoRun, started,
                  enqueued, lastBatch, submits, syncVars, scanVars, otherVars >>

\* A slip: the script is run again whatever the install answered.
Reruns_always(ok) == TRUE

\* The script is run again in the branch of res.ok && data.success only.
Reruns(ok) == ok

\* The install is answered: on success the modal closes and the script is run again.
InstallDone(ok) ==
  /\ installing.active
  /\ installing' = NotInstalling
  /\ installModal' = IF ok THEN NoModal ELSE installModal
  /\ IF Reruns(ok)
     THEN queueScripts(<<installing.scriptPath>>)
     ELSE UNCHANGED << scriptQueue, isRunningRef, isRunning, inFlight,
                       started, enqueued, lastBatch, submits >>
  /\ UNCHANGED << pendingScripts, checkedPendingScripts, showPendingModal, autoRun,
                  syncVars, scanVars, otherVars >>

\* The install modal is cancelled.
InstallCancel ==
  /\ installModal.show
  /\ ~installing.active
  /\ installModal' = NoModal
  /\ UNCHANGED << scriptQueue, isRunningRef, isRunning, inFlight, pendingScripts,
                  checkedPendingScripts, showPendingModal, installing, autoRun, started,
                  enqueued, lastBatch, submits, syncVars, scanVars, otherVars >>

\* runScripts(scriptPaths) of ScriptRunner.jsx up to its first await: no queue, the
\* loop runs its own paths one after the other.
runScripts(scriptPaths) ==
  /\ submits < MaxSubmits
  /\ submits' = submits + 1
  /\ Len(scriptPaths) > 0
  /\ isRunning' = TRUE
  /\ inFlight' = Append(inFlight, RunRequest(Head(scriptPaths), Tail(scriptPaths)))
  /\ started' = Append(started, Head(scriptPaths))
  /\ enqueued' = enqueued \o scriptPaths
  /\ UNCHANGED << scriptQueue, isRunningRef, pendingScripts, checkedPendingScripts,
                  showPendingModal, installModal, installing, autoRun, lastBatch,
                  syncVars, scanVars, otherVars >>

\* ws.onmessage of ScriptRunner.jsx with a script_change: run it if Auto is checked.
ScriptChangeAuto(scriptPath) ==
  /\ autoRun
  /\ runScripts(<<scriptPath>>)

\* handleRun of ScriptRunner.jsx, behind its button.
HandleRunAuto(selected) ==
  /\ ~isRunning
  /\ runScripts(selected)

\* The Auto checkbox is clicked.
SetAutoRun ==
  /\ autoRun' = ~autoRun
  /\ UNCHANGED << scriptQueue, isRunningRef, isRunning, inFlight, pendingScripts,
                  checkedPendingScripts, showPendingModal, installModal, installing,
                  started, enqueued, lastBatch, submits, syncVars, scanVars, otherVars >>

\* The i-th run request of ScriptRunner.jsx is answered: its loop runs its next
\* path, or ends with setIsRunning(false).
RunCompleteAuto(i) ==
  /\ i \in 1..Len(inFlight)
  /\ IF Len(inFlight[i].rest) > 0
     THEN /\ inFlight' = [inFlight EXCEPT
                            ![i] = RunRequest(Head(inFlight[i].rest), Tail(inFlight[i].rest))]
          /\ started' = Append(started, Head(inFlight[i].rest))
          /\ UNCHANGED isRunning
     ELSE /\ inFlight' = SubSeq(inFlight, 1, i - 1) \o SubSeq(inFlight, i + 1, Len(inFlight))
          /\ isRunning' = FALSE
          /\ UNCHANGED started
  /\ UNCHANGED << scriptQueue, isRunningRef, pendingScripts, checkedPendingScripts,
                  showPendingModal, installModal, installing, autoRun, enqueued, lastBatch,
                  submits, syncVars, scanVars, otherVars >>

\* ------------------------------------------------------------ terminal

\* The most WebSockets one terminal creates, messages it receives, keystrokes it
\* sends, and frames one socket carries.
MaxSockets == 2
MaxMessages == 2
MaxKeys == 1
MaxSent == 3

\* One step of the clock, in milliseconds.
TickMs == 5 * 1000

\* The terminal components: Terminal.jsx, its 48-row variant, and LocalTerminal.
TerminalKinds == {"Terminal", "Terminal48", "LocalTerminal"}
IsRemote(kind) == kind # "LocalTerminal"

FIXED_COLS == 80
FIXED_ROWS(kind) ==
  CASE kind = "Terminal" -> 73
    [] kind = "Terminal48" -> 48
    [] kind = "LocalTerminal" -> 20

\* The delay of the keepalive setInterval, and of the auto-launch setTimeout.
PingMs(kind) == IF kind = "Terminal" THEN 25000 ELSE 30000
PingTicks(kind) == PingMs(kind) \div TickMs
LaunchMs(kind) == IF kind = "Terminal" THEN 500 ELSE 2000

\* The idle timeout of WebSocket reads on the remote side.
IdleMs == 90 * 1000
IdleTicks == IdleMs \div TickMs

\* The frames a terminal sends.
ResizeFrame(kind) == [type |-> "resize", cols |-> FIXED_COLS, rows |-> FIXED_ROWS(kind), data |-> ""]
PingFrame == [type |-> "ping", cols |-> 0, rows |-> 0, data |-> ""]
DataFrame(text) == [type |-> "data", cols |-> 0, rows |-> 0, data |-> text]

\* What ws.onopen sends at once.
OpenFrames_none(kind) == <<>>
OpenFrames(kind) == << ResizeFrame(kind) >>

\* The messages a socket delivers, as the pieces of event.data: other output, the
\* text {"type":"pong"}, and the same text with a blank after the colon.
Messages ==
  { <<"out">>, <<"pong">>, <<"pong_sp">>, <<"out", "pong">>, <<"pong", "out">>, <<"pong", "pong">> }

\* event.data.replace(/\{"type":\s*"pong"\}/g, '')
RECURSIVE StripPong(_)
StripPong(m) ==
  IF m = <<>> THEN <<>>
  ELSE IF m[1] \in {"pong", "pong_sp"} THEN StripPong(Tail(m))
  ELSE << m[1] >> \o StripPong(Tail(m))

\* What ws.onmessage writes to the terminal for event.data = m.
Filtered_all(kind, m) == m
Filtered(kind, m) ==
  CASE kind = "Terminal" -> IF m = <<"pong">> THEN <<>> ELSE m
    [] kind = "Terminal48" -> StripPong(m)
    [] kind = "LocalTerminal" -> m

\* The line ws.onclose writes.
ClosedNotice(kind) == IF kind = "LocalTerminal" THEN "Disconnected" ELSE "Connection closed"

NewSocket(gen) ==
  [state |-> "connecting", sent |-> <<>>, pingInterval |-> FALSE, sincePing |-> 0,
   launch |-> FALSE, input |-> TRUE, xterm |-> gen, idle |-> 0, cause |-> "", stale |-> FALSE]

\* The xterm a handler of socket i writes to is still there: the one its effect
\* created (xtermRef.current in the 48-row variant), not disposed.
XtermOf(i) ==
  /\ xtermLive
  /\ ~sockets[i].stale
  /\ termKind # "Terminal48" => sockets[i].xterm = xtermGen

\* The cleanup of the effect that owns socket i: clearInterval, dispose of the input
\* handler, ws.close().
Cleanup(ss, i) ==
  IF i = 0 THEN ss
  ELSE [ss EXCEPT ![i] =
         [@ EXCEPT !.pingInterval = FALSE,
                   !.sincePing = 0,
                   !.idle = 0,
                   !.input = FALSE,
                   !.state = IF @ \in {"connecting", "open"} THEN "closing" ELSE @,
                   !.cause = IF ss[i].state \in {"connecting", "open"} THEN "teardown" ELSE @]]

\* The guard of the effect that connects.
Connects(mounted, props) ==
  /\ mounted
  /\ termKind # "LocalTerminal" => (props.enabled /\ props.syncUrl # "")

\* The effects run for a mount, an unmount or a change of their dependencies.
Rerender(mounted, props) ==
  LET cleaned == Cleanup(sockets, effectWs)
      connects == Connects(mounted, props)
      keepsXterm ==
        termKind = "Terminal48" /\ mounted /\ termMounted /\ props.enabled = termProps.enabled
      hasXterm ==
        IF keepsXterm THEN xtermLive
        ELSE mounted /\ (IF termKind = "Terminal48" THEN props.enabled ELSE connects)
      gen == IF termKind # "Terminal48" /\ hasXterm THEN xtermGen + 1 ELSE xtermGen
      kept == IF mounted THEN cleaned
              ELSE [i \in 1..Len(cleaned) |-> [cleaned[i] EXCEPT !.stale = TRUE]]
  IN /\ connects => Len(sockets) < MaxSockets
     /\ termMounted' = mounted
     /\ termProps' = props
     /\ sockets' = IF connects THEN Append(kept, NewSocket(gen)) ELSE kept
     /\ effectWs' = IF connects THEN Len(sockets) + 1 ELSE 0
     /\ xtermGen' = gen
     /\ xtermLive' = hasXterm
     /\ display' =
          IF connects /\ termKind = "Terminal48"
          THEN (IF keepsXterm THEN display ELSE <<>>) \o <<"Connecting to terminal...">>
          ELSE IF keepsXterm THEN display ELSE <<>>

SyncUrls == {"", "u1"}
TerminalProps == [syncUrl : SyncUrls, enabled : BOOLEAN, autoLaunchClaude : BOOLEAN]

\* The component is created (again): fresh state and refs, then its effects.
Mount(props) ==
  /\ ~termMounted
  /\ termKind = "LocalTerminal" => props = termProps
  /\ props.autoLaunchClaude = termProps.autoLaunchClaude
  /\ Rerender(TRUE, props)
  /\ isTerminalConnected' = FALSE
  /\ hasLaunchedClaudeRef' = FALSE
  /\ UNCHANGED << termKind, received, keys, syncVars, scanVars, runVars, besideTerm >>

\* The component is torn down: the cleanups of its effects.
Unmount ==
  /\ termMounted
  /\ Rerender(FALSE, termProps)
  /\ UNCHANGED << termKind, isTerminalConnected, hasLaunchedClaudeRef, received, keys,
                  syncVars, scanVars, runVars, besideTerm >>

\* syncUrl, or isConnected (isExpanded in the 48-row variant), changes: cleanup of
\* the effect, then the effect again.
ChangeInputs(syncUrl, enabled) ==
  /\ termMounted
  /\ termKind # "LocalTerminal"
  /\ << syncUrl, enabled >> # << termProps.syncUrl, termProps.enabled >>
  /\ Rerender(TRUE, [termProps EXCEPT !.syncUrl = syncUrl, !.enabled = enabled])
  /\ UNCHANGED << termKind, isTerminalConnected, hasLaunchedClaudeRef, received, keys,
                  syncVars, scanVars, runVars, besideTerm >>

\* ws.onopen
Open(i) ==
  /\ sockets[i].state = "connecting"
  /\ LET launches ==
           CASE termKind = "Terminal" ->
                  termProps.autoLaunchClaude /\ ~hasLaunchedClaudeRef /\ ~sockets[i].stale
             [] termKind = "Terminal48" -> TRUE
             [] termKind = "LocalTerminal" -> FALSE
     IN /\ sockets' = [sockets EXCEPT ![i] =
                         [@ EXCEPT !.state = "open",
                                   !.sent = OpenFrames(termKind),
                                   !.idle = 0,
                                   !.pingInterval = IsRemote(termKind),
                                   !.sincePing = 0,
                                   !.launch = launches]]
        /\ hasLaunchedClaudeRef' = (hasLaunchedClaudeRef \/ launches)
  /\ isTerminalConnected' = (IF sockets[i].stale THEN isTerminalConnected ELSE TRUE)
  /\ display' = IF IsRemote(termKind) /\ XtermOf(i) THEN <<>> ELSE display
  /\ UNCHANGED << termKind, termMounted, termProps, xtermGen, xtermLive, effectWs, received,
                  keys, syncVars, scanVars, runVars, besideTerm >>

\* The setTimeout of ws.onopen fires: 'claude\n' if the socket is open.
LaunchFire(i) ==
  /\ sockets[i].launch
  /\ sockets[i].state = "open" => Len(sockets[i].sent) < MaxSent
  /\ sockets' = [sockets EXCEPT ![i] =
                   [@ EXCEPT !.launch = FALSE,
                             !.sent = IF sockets[i].state = "open"
                                      THEN Append(@, DataFrame("claude\n")) ELSE @,
                             !.idle = IF sockets[i].state = "open" THEN 0 ELSE @]]
  /\ UNCHANGED << termKind, termMounted, termProps, xtermGen, xtermLive, display,
                  isTerminalConnected, hasLaunchedClaudeRef, effectWs, received, keys,
                  syncVars, scanVars, runVars, besideTerm >>

\* The setInterval of ws.onopen fires: a ping if the socket is open.
PingFire(i) ==
  /\ sockets[i].pingInterval
  /\ sockets[i].sincePing = PingTicks(termKind)
  /\ sockets[i].state = "open" => Len(sockets[i].sent) < MaxSent
  /\ sockets' = [sockets EXCEPT ![i] =
                   [@ EXCEPT !.sincePing = 0,
                             !.sent = IF sockets[i].state = "open"
                                      THEN Append(@, PingFrame) ELSE @,
                             !.idle = IF sockets[i].state = "open" THEN 0 ELSE @]]
  /\ UNCHANGED << termKind, termMounted, termProps, xtermGen, xtermLive, display,
                  isTerminalConnected, hasLaunchedClaudeRef, effectWs, received, keys,
                  syncVars, scanVars, runVars, besideTerm >>

\* xterm.onData: a keystroke goes to the socket if it is open.
Key(i) ==
  /\ sockets[i].input
  /\ XtermOf(i)
  /\ keys < MaxKeys
  /\ sockets[i].state = "open"
  /\ Len(sockets[i].sent) < MaxSent
  /\ keys' = keys + 1
  /\ sockets' = [sockets EXCEPT ![i] =
                   [@ EXCEPT !.sent = IF sockets[i].state = "open"
                                      THEN Append(@, DataFrame("key")) ELSE @,
                             !.idle = IF sockets[i].state = "open" THEN 0 ELSE @]]
  /\ UNCHANGED << termKind, termMounted, termProps, xtermGen, xtermLive, display,
                  isTerminalConnected, hasLaunchedClaudeRef, effectWs, received,
                  syncVars, scanVars, runVars, besideTerm >>

\* ws.onmessage
Receive(i, m) ==
  /\ sockets[i].state \in {"open", "closing"}
  /\ received < MaxMessages
  /\ received' = received + 1
  /\ display' = IF XtermOf(i) THEN display \o Filtered(termKind, m) ELSE display
  /\ UNCHANGED << termKind, termMounted, termProps, sockets, xtermGen, xtermLive,
                  isTerminalConnected, hasLaunchedClaudeRef, effectWs, keys,
                  syncVars, scanVars, runVars, besideTerm >>

\* A socket once closed: ws.onclose has cleared its interval, and nothing it has
\* sent matters any more.
ClosedSocket_ticking(s, cause) == [s EXCEPT !.state = "closed", !.cause = cause]
ClosedSocket(s, cause) ==
  [s EXCEPT !.state = "closed", !.cause = cause, !.idle = 0, !.sincePing = 0,
            !.pingInterval = FALSE, !.sent = <<>>, !.input = FALSE, !.xterm = 0]

\* The sockets after the close of socket i: ws.onclose creates none.
Closed_reconnect(ss, i, cause) ==
  Append([ss EXCEPT ![i] = ClosedSocket(@, cause)], NewSocket(xtermGen))
Closed(ss, i, cause) == [ss EXCEPT ![i] = ClosedSocket(@, cause)]

\* ws.onclose (after ws.onerror when the connection failed), for a close of socket i
\* with the given cause.
OnClose(i, cause, failed) ==
  /\ sockets' = Closed(sockets, i, cause)
  /\ isTerminalConnected' = (IF sockets[i].stale THEN isTerminalConnected ELSE FALSE)
  /\ hasLaunchedClaudeRef' =
       (IF termKind = "Terminal" /\ ~sockets[i].stale THEN FALSE ELSE hasLaunchedClaudeRef)
  /\ display' =
       IF XtermOf(i)
       THEN display \o (IF failed /\ IsRemote(termKind) THEN <<"Connection error">> ELSE <<>>)
                    \o << ClosedNotice(termKind) >>
       ELSE display
  /\ UNCHANGED << termKind, termMounted, termProps, xtermGen, xtermLive, effectWs, received,
                  keys, syncVars, scanVars, runVars, besideTerm >>

\* The connection fails, or the other side closes it.
PeerClose(i) ==
  /\ sockets[i].state \in {"connecting", "open"}
  /\ OnClose(i, "peer", sockets[i].state = "connecting")

\* The close the component asked for completes.
CloseDone(i) ==
  /\ sockets[i].state = "closing"
  /\ OnClose(i, sockets[i].cause, FALSE)

\* The other side has read nothing for IdleMs and closes.
IdleClose(i) ==
  /\ sockets[i].state = "open"
  /\ sockets[i].idle >= IdleTicks
  /\ OnClose(i, "idle", FALSE)

\* TickMs pass, once every timer that is due has fired.
TerminalTick ==
  /\ \E i \in 1..Len(sockets) : sockets[i].state = "open"
  /\ \A i \in 1..Len(sockets) :
       /\ ~sockets[i].launch
       /\ ~(sockets[i].pingInterval /\ sockets[i].sincePing >= PingTicks(termKind))
       /\ ~(sockets[i].state = "open" /\ sockets[i].idle >= IdleTicks)
  /\ sockets' = [i \in 1..Len(sockets) |->
                   [sockets[i] EXCEPT
                      !.sincePing = IF sockets[i].pingInterval THEN @ + 1 ELSE @,
                      !.idle = IF sockets[i].state = "open" THEN @ + 1 ELSE @]]
  /\ UNCHANGED << termKind, termMounted, termProps, xtermGen, xtermLive, display,
                  isTerminalConnected, hasLaunchedClaudeRef, effectWs, received, keys,
                  syncVars, scanVars, runVars, besideTerm >>

\* ------------------------------------------------------------ time keeper

\* The most calls of writeTimeKeeper.
MaxTicks == 3

\* How a request ends: a 2xx answer, another status, or a network error.
Outcomes == {"ok", "status", "throw"}

\* The line `Ping: ${timestamp}\n` of call i.
PingLine(i) == i

\* A call that has just begun.
NewCall == [pc |-> "read", existingContent |-> <<>>, read |-> "", write |-> "", result |-> "none"]

\* What writeTimeKeeper returns after its POST: response.ok, or false from the catch.
Returned_rethrown(outcome) == IF outcome = "throw" THEN "thrown" ELSE "false"
Returned(outcome) == IF outcome = "ok" THEN "true" ELSE "false"

\* A call of writeTimeKeeper begins.
CallKeeper == calls' = Append(calls, NewCall)

\* The effect runs with syncUrl set and isConnected: one call at once, then the
\* interval.
KeeperConnect ==
  /\ ~keeperInterval
  /\ Len(calls) < MaxTicks
  /\ CallKeeper
  /\ keeperInterval' = TRUE
  /\ UNCHANGED << timeKeeper, syncVars, scanVars, runVars, besideKeeper >>

\* The cleanup of the effect: clearInterval.
KeeperDisconnect ==
  /\ keeperInterval
  /\ keeperInterval' = FALSE
  /\ UNCHANGED << timeKeeper, calls, syncVars, scanVars, runVars, besideKeeper >>

\* The interval fires.
KeeperTick ==
  /\ keeperInterval
  /\ Len(calls) < MaxTicks
  /\ CallKeeper
  /\ UNCHANGED << timeKeeper, keeperInterval, syncVars, scanVars, runVars, besideKeeper >>

\* The GET of call i ends: the content of the file if the answer is ok (no file: no
\* ok answer), else nothing.
KeeperRead(i, outcome) ==
  /\ calls[i].pc = "read"
  /\ outcome = "ok" => timeKeeper # <<>>
  /\ calls' = [calls EXCEPT ![i] =
                 [@ EXCEPT !.pc = "write",
                           !.read = outcome,
                           !.existingContent = IF outcome = "ok" THEN timeKeeper ELSE <<>>]]
  /\ UNCHANGED << timeKeeper, keeperInterval, syncVars, scanVars, runVars, besideKeeper >>

\* The POST of call i ends; after a network error the file may or may not have been
\* written.
KeeperWrite(i, outcome, landed) ==
  /\ calls[i].pc = "write"
  /\ landed = (outcome = "ok") \/ outcome = "throw"
  /\ timeKeeper' = IF landed THEN Append(calls[i].existingContent, PingLine(i)) ELSE timeKeeper
  /\ calls' = [calls EXCEPT ![i] =
                 [@ EXCEPT !.pc = "done", !.write = outcome, !.result = Returned(outcome)]]
  /\ UNCHANGED << keeperInterval, syncVars, scanVars, runVars, besideKeeper >>

\* ------------------------------------------------------------ folder selection

\* The most calls of handleFolderSelected.
MaxSelects == 2

Projects == {"P1", "P2"}

\* selectData.name || path.split('/').pop()
NameOf(path) == IF path = "P1" THEN "one" ELSE IF path = "P2" THEN "two" ELSE ""

\* handleFolderSelected(path): the POST /api/folder/select is sent.
FolderSelected(path) ==
  /\ Len(selCalls) < MaxSelects
  /\ selCalls' = Append(selCalls, [path |-> path, pc |-> "select", tree |-> ""])
  /\ UNCHANGED << serverProject, projectPath, folderName, selectedTree, pullProject,
                  syncVars, scanVars, runVars, besideSelect >>

\* The server takes the POST of call i: the folder becomes its project, or it refuses.
ServeSelect(i, ok) ==
  /\ selCalls[i].pc = "select"
  /\ selCalls' = [selCalls EXCEPT ![i].pc = IF ok THEN "selected" ELSE "refused"]
  /\ serverProject' = IF ok THEN selCalls[i].path ELSE serverProject
  /\ UNCHANGED << projectPath, folderName, selectedTree, pullProject,
                  syncVars, scanVars, runVars, besideSelect >>

\* The answer to the POST of call i arrives: setProjectPath, setFolderName and the
\* GET /api/files/tree, or the error is caught.
SelectReturned(i) ==
  /\ selCalls[i].pc \in {"selected", "refused"}
  /\ IF selCalls[i].pc = "selected"
     THEN /\ projectPath' = selCalls[i].path
          /\ folderName' = NameOf(selCalls[i].path)
          /\ selCalls' = [selCalls EXCEPT ![i].pc = "tree"]
     ELSE /\ selCalls' = [selCalls EXCEPT ![i].pc = "done"]
          /\ UNCHANGED << projectPath, folderName >>
  /\ UNCHANGED << serverProject, selectedTree, pullProject,
                  syncVars, scanVars, runVars, besideSelect >>

\* The server takes the GET of call i: the tree of its project, or an error.
ServeTree(i, ok) ==
  /\ selCalls[i].pc = "tree"
  /\ selCalls' = [selCalls EXCEPT ![i] =
                    [@ EXCEPT !.pc = "treed", !.tree = IF ok THEN serverProject ELSE ""]]
  /\ UNCHANGED << serverProject, projectPath, folderName, selectedTree, pullProject,
                  syncVars, scanVars, runVars, besideSelect >>

\* The answer to the GET of call i arrives: setTree if it is ok.
TreeReturned(i) ==
  /\ selCalls[i].pc = "treed"
  /\ selCalls' = [selCalls EXCEPT ![i].pc = "done"]
  /\ selectedTree' = IF selCalls[i].tree # ""
                     THEN selCalls[i].tree ELSE selectedTree
  /\ UNCHANGED << serverProject, projectPath, folderName, pullProject,
                  syncVars, scanVars, runVars, besideSelect >>

\* handlePullScripts: a pull begins under the project now shown.
PullStartUnder(ok) ==
  /\ projectPath # ""
  /\ PullStartTaken(ok)
  /\ pullProject' = projectPath
  /\ UNCHANGED << serverProject, projectPath, folderName, selectedTree, selCalls, besideSelect >>

\* ------------------------------------------------------------ classifier

\* The names and sizes shouldDeleteFile is asked about.
ProbeNames ==
  { <<"d", "csv">>, <<"d", "CSV">>, <<"d", "xlsx">>, <<"d", "XLS">>, <<"d", "json">>,
    <<"d", "JSON">>, <<"notes", "txt">>, <<"notes", "TXT">>, <<"x", "py">>,
    <<"README", "md">>, <<"csv">>, <<"d", "csv", "bak">>, <<"notes">> }
ProbeSizes == {0, MAX_TXT_SIZE_BYTES, MAX_TXT_SIZE_BYTES + 1, 2 * MAX_TXT_SIZE_BYTES}

\* shouldDeleteFile(fileHandle) answers.
Classify ==
  /\ verdict = <<>>
  /\ verdict' = << shouldDeleteFile(probe.name, probe.size, probe.readable) >>
  /\ UNCHANGED << probe, syncVars, scanVars, runVars, besideClassify >>

\* ------------------------------------------------------------ auto-preview

\* How many output files are reported before the debounce window closes.
MaxReports == 3

imageExts == {"png", "jpg", "jpeg", "gif", "webp"}
dataExts == {"csv", "xlsx", "xls"}
allPreviewExts == imageExts \cup dataExts

\* The output files that are reported.
OutputFiles == { <<"a", "png">>, <<"b", "PNG">>, <<"c", "csv">>, <<"n", "txt">> }

\* f.split('.').pop()?.toLowerCase()
PreviewExt(f) == toLowerCase(Last(f))

\* pickBestFile(files): the last image of the array, or else its last file.
pickBestFile(fs) ==
  LET images == SelectSeq(fs, LAMBDA f : PreviewExt(f) \in imageExts)
  IN IF Len(images) > 0 THEN images[Len(images)] ELSE fs[Len(fs)]

\* ws.onmessage with an output_file_change for filePath: a file that can be previewed
\* is collected unless it already is, and the timer is set anew.
OutputFileChange(filePath) ==
  /\ Len(reported) < MaxReports
  /\ reported' = Append(reported, filePath)
  /\ IF PreviewExt(filePath) \in allPreviewExts
     THEN /\ pendingPreviewFiles' = IF includes(pendingPreviewFiles, filePath)
                                    THEN pendingPreviewFiles
                                    ELSE Append(pendingPreviewFiles, filePath)
          /\ autoPreviewDebounceRef' = TRUE
     ELSE UNCHANGED << pendingPreviewFiles, autoPreviewDebounceRef >>
  /\ UNCHANGED << bestFile, syncVars, scanVars, runVars, besidePreview >>

\* The timer fires, a second after the last file collected: the best file goes to
\* loadOutputFile and the collection is emptied.
DebounceFire ==
  /\ autoPreviewDebounceRef
  /\ autoPreviewDebounceRef' = FALSE
  /\ bestFile' = << pickBestFile(pendingPreviewFiles) >>
  /\ pendingPreviewFiles' = <<>>
  /\ reported' = <<>>
  /\ UNCHANGED << syncVars, scanVars, runVars, besidePreview >>

\* ------------------------------------------------------------ terminal list

\* The highest terminal id handed out in one behaviour.
MaxTerminalId == 7

\* A slip: an emptied list stays empty.
KeepOne_not(newTerminals, nextId) == newTerminals

\* if (newTerminals.length === 0) return [{ id: terminalIdCounter }]; return newTerminals
KeepOne(newTerminals, nextId) == IF Len(newTerminals) = 0 THEN << nextId >> ELSE newTerminals

\* addTerminal()
addTerminal ==
  /\ terminalIdCounter < MaxTerminalId
  /\ terminalIdCounter' = terminalIdCounter + 1
  /\ terminals' = Append(terminals, terminalIdCounter + 1)
  /\ activeTerminalId' = terminalIdCounter + 1
  /\ UNCHANGED << syncVars, scanVars, runVars, besideTabs >>

\* closeTerminal(id), with the updater it gives setTerminals.
closeTerminal(id) ==
  LET newTerminals == SelectSeq(terminals, LAMBDA t : t # id)
  IN /\ Len(newTerminals) = 0 => terminalIdCounter < MaxTerminalId
     /\ terminalIdCounter' = IF Len(newTerminals) = 0 THEN terminalIdCounter + 1
                             ELSE terminalIdCounter
     /\ terminals' = KeepOne(newTerminals, terminalIdCounter + 1)
     /\ activeTerminalId' = IF Len(newTerminals) > 0 /\ activeTerminalId = id
                            THEN newTerminals[Len(newTerminals)]
                            ELSE activeTerminalId
     /\ UNCHANGED << syncVars, scanVars, runVars, besideTabs >>

\* A tab is clicked: setActiveTerminalId(term.id).
TabClicked(id) ==
  /\ includes(terminals, id)
  /\ activeTerminalId' = id
  /\ UNCHANGED << terminalIdCounter, terminals, syncVars, scanVars, runVars, besideTabs >>

\* clearTerminals()
clearTerminals ==
  /\ terminalIdCounter < MaxTerminalId
  /\ terminalIdCounter' = terminalIdCounter + 1
  /\ terminals' = << terminalIdCounter + 1 >>
  /\ activeTerminalId' = terminalIdCounter + 1
  /\ UNCHANGED << syncVars, scanVars, runVars, besideTabs >>

\* ------------------------------------------------------------ watch effect

\* The most /ws/watch sockets a component creates in one behaviour.
MaxWatchSockets == 3

\* connect() of the effect run gen: new WebSocket(wsUrl), wsRef.current = ws.  The
\* socket is late if that run of the effect was cleaned up before.
Connected(ss, gen, inForce) ==
  Append(ss, [effect |-> gen, state |-> "open", timer |-> FALSE, late |-> gen # inForce])

\* wsRef.current.close()
CloseRef(ss, ref) ==
  IF ref # 0 /\ ss[ref].state = "open" THEN [ss EXCEPT ![ref].state = "closing"] ELSE ss

\* The effect runs (mount with a folderName): connect().
WatchMount ==
  /\ watchEffect = 0
  /\ Len(watchSockets) < MaxWatchSockets
  /\ watchGen' = watchGen + 1
  /\ watchEffect' = watchGen + 1
  /\ watchSockets' = Connected(watchSockets, watchGen + 1, watchGen + 1)
  /\ wsRef' = Len(watchSockets) + 1
  /\ UNCHANGED << handled, syncVars, scanVars, runVars, besideWatch >>

\* folderName or autoRun changes: the cleanup of the effect, then the effect again.
WatchDepsChange ==
  /\ watchEffect # 0
  /\ Len(watchSockets) < MaxWatchSockets
  /\ watchGen' = watchGen + 1
  /\ watchEffect' = watchGen + 1
  /\ watchSockets' = Connected(CloseRef(watchSockets, wsRef), watchGen + 1, watchGen + 1)
  /\ wsRef' = Len(watchSockets) + 1
  /\ UNCHANGED << handled, syncVars, scanVars, runVars, besideWatch >>

\* The component unmounts: the cleanup of the effect.
WatchUnmount ==
  /\ watchEffect # 0
  /\ watchEffect' = 0
  /\ watchSockets' = CloseRef(watchSockets, wsRef)
  /\ UNCHANGED << watchGen, wsRef, handled, syncVars, scanVars, runVars, besideWatch >>

\* Socket i is closed, by close() or by the server or the network: ws.onclose sets
\* the timer, setTimeout(connect, 3000), whatever closed the socket.
WatchClosed(i) ==
  /\ watchSockets[i].state \in {"open", "closing"}
  /\ watchSockets' = [watchSockets EXCEPT
                        ![i] = [@ EXCEPT !.state = "closed",
                                         !.timer = TRUE]]
  /\ UNCHANGED << watchEffect, watchGen, wsRef, handled, syncVars, scanVars, runVars,
                  besideWatch >>

\* The timer of socket i fires, three seconds after it closed: connect().
ReconnectFire(i) ==
  /\ watchSockets[i].timer
  /\ Len(watchSockets) < MaxWatchSockets
  /\ watchSockets' = Connected([watchSockets EXCEPT ![i].timer = FALSE],
                               watchSockets[i].effect, watchEffect)
  /\ wsRef' = Len(watchSockets) + 1
  /\ UNCHANGED << watchEffect, watchGen, handled, syncVars, scanVars, runVars, besideWatch >>

\* The server sends one change event to every watcher: ws.onmessage of each open socket.
WatchEvent ==
  /\ handled' = Cardinality({i \in 1..Len(watchSockets) : watchSockets[i].state = "open"})
  /\ handled' # handled
  /\ UNCHANGED << watchEffect, watchGen, watchSockets, wsRef, syncVars, scanVars, runVars,
                  besideWatch >>

\* ------------------------------------------------------------ auto-sync

\* The most /api/sync/full requests of one behaviour.
MaxSyncCalls == 3

Codespaces == {"cs1", "cs2"}

\* handleSync as a closure that sees isSyncing as seen: it returns at once, or sets
\* isSyncing and posts /api/sync/full with lastSyncRef.current.
handleSync(seen) ==
  /\ ~seen
  /\ Len(syncCalls) < MaxSyncCalls
  /\ isSyncing' = TRUE
  /\ syncCalls' = Append(syncCalls, [url |-> selectedUrl, state |-> "flight"])

\* The auto-sync effect runs (isConnected, autoSync and projectPath hold): the
\* interval is set with the handleSync of this render, and the initial sync is made.
AutoSyncStart ==
  /\ ~autoSyncOn
  /\ autoSyncOn' = TRUE
  /\ effectIsSyncing' = isSyncing
  /\ IF isSyncing \/ Len(syncCalls) >= MaxSyncCalls
     THEN UNCHANGED << isSyncing, syncCalls >>
     ELSE handleSync(isSyncing)
  /\ UNCHANGED << selectedUrl, applied, lastSyncFrom, syncVars, scanVars, runVars, besideAutoSync >>

\* The cleanup of the effect: autoSync is switched off, or the connection is lost.
AutoSyncStop ==
  /\ autoSyncOn
  /\ autoSyncOn' = FALSE
  /\ UNCHANGED << selectedUrl, isSyncing, effectIsSyncing, syncCalls, applied, lastSyncFrom,
                  syncVars, scanVars, runVars, besideAutoSync >>

\* The interval fires: the handleSync the effect closed over.
AutoSyncTick ==
  /\ autoSyncOn
  /\ handleSync(effectIsSyncing)
  /\ UNCHANGED << selectedUrl, effectIsSyncing, autoSyncOn, applied, lastSyncFrom,
                  syncVars, scanVars, runVars, besideAutoSync >>

\* The Sync Now button: the handleSync of the current render.
SyncNow ==
  /\ handleSync(isSyncing)
  /\ UNCHANGED << selectedUrl, effectIsSyncing, autoSyncOn, applied, lastSyncFrom,
                  syncVars, scanVars, runVars, besideAutoSync >>

\* The response to request i arrives: its vector is stored if it is ok, and isSyncing
\* is cleared.
SyncReturned(i, ok) ==
  /\ syncCalls[i].state = "flight"
  /\ syncCalls' = [syncCalls EXCEPT ![i].state = "done"]
  /\ isSyncing' = FALSE
  /\ applied' = IF ok THEN Append(applied, i) ELSE applied
  /\ lastSyncFrom' = IF ok THEN << syncCalls[i].url >> ELSE lastSyncFrom
  /\ UNCHANGED << selectedUrl, effectIsSyncing, autoSyncOn, syncVars, scanVars, runVars,
                  besideAutoSync >>

\* handleSelectCodespace(codespace): the vector is emptied; isConnected becomes false,
\* which cleans the auto-sync effect up.
handleSelectCodespace(url) ==
  /\ url # selectedUrl
  /\ selectedUrl' = url
  /\ lastSyncFrom' = <<>>
  /\ autoSyncOn' = FALSE
  /\ UNCHANGED << isSyncing, effectIsSyncing, syncCalls, applied, syncVars, scanVars,
                  runVars, besideAutoSync >>

\* ------------------------------------------------------------ preview loader

\* The most calls of loadOutputFile the debounce makes in one behaviour.
MaxLoads == 4

LoadFiles == {"f.png", "g.csv", "h.png"}

\* loadOutputFile(filePath) up to its await: the file is put aside while a load is
\* running, or the lock is taken, the file selected and its content requested.
loadOutputFile(filePath) ==
  IF isAutoPreviewingRef
  THEN /\ pendingFilePath' = filePath
       /\ UNCHANGED << isAutoPreviewingRef, loadingFile, selectedFile, inFlightLoads >>
  ELSE /\ isAutoPreviewingRef' = TRUE
       /\ loadingFile' = filePath
       /\ selectedFile' = filePath
       /\ inFlightLoads' = inFlightLoads + 1
       /\ UNCHANGED pendingFilePath

\* The debounce timer's callback calls loadOutputFile(bestFile).
LoadRequested(filePath) ==
  /\ loadRequests < MaxLoads
  /\ loadRequests' = loadRequests + 1
  /\ lastRequested' = filePath
  /\ loadOutputFile(filePath)
  /\ UNCHANGED << retryTimers, syncVars, scanVars, runVars, besideLoad >>

\* The request is answered or fails: the finally block frees the lock, and sets
\* a timer for a file that was put aside if it is not the file just loaded.
LoadDone ==
  /\ isAutoPreviewingRef
  /\ isAutoPreviewingRef' = FALSE
  /\ loadingFile' = ""
  /\ inFlightLoads' = inFlightLoads - 1
  /\ IF pendingFilePath # "" /\ pendingFilePath # loadingFile
     THEN /\ retryTimers' = Append(retryTimers, pendingFilePath)
          /\ pendingFilePath' = ""
     ELSE UNCHANGED << retryTimers, pendingFilePath >>
  /\ UNCHANGED << selectedFile, lastRequested, loadRequests, syncVars, scanVars, runVars,
                  besideLoad >>

\* A 300 ms timer fires: loadOutputFile(nextFile).
RetryFire(i) ==
  /\ retryTimers' = SubSeq(retryTimers, 1, i - 1) \o SubSeq(retryTimers, i + 1, Len(retryTimers))
  /\ loadOutputFile(retryTimers[i])
  /\ UNCHANGED << lastRequested, loadRequests, syncVars, scanVars, runVars, besideLoad >>

\* ------------------------------------------------------------ specifications

NoCall == [path |-> <<>>, outcome |-> "none"]

SyncIdle ==
  /\ lastSync = EmptyMap
  /\ edits = 0
  /\ pullPc = "idle"
  /\ scripts = <<>>
  /\ idx = 1
  /\ newLastSync = EmptyMap
  /\ syncedFiles = <<>>
  /\ scriptData = ""
  /\ pullFetched = {}
  /\ pullWritten = {}
  /\ pullResult = NoResult
  /\ prevPull = [valid |-> FALSE, listing |-> <<>>]
  /\ fresh = FALSE
  /\ pushPc = "idle"
  /\ files = <<>>
  /\ pushIdx = 1
  /\ pushedFiles = <<>>
  /\ pushResult = NoPush
  /\ uploads = {}
  /\ uploadCall = NoCall
  /\ directCalls = 0

\* Before any scan or poll: every file as old as the others, no tree shown.
ScanRest ==
  /\ modified = [p \in ScanFiles |-> 1]
  /\ quiet = FALSE
  /\ shownTree = <<>>
  /\ treeReplaced = FALSE

ScanIdle ==
  /\ disk = EmptyMap
  /\ dirs = {}
  /\ creates = 0
  /\ tree = NoTree
  /\ deletedFiles = <<>>
  /\ scanned = EmptyMap
  /\ scanIo = [failDelete |-> {}, unreadable |-> {}]
  /\ ScanRest

NoBatch == [paths |-> <<>>, idle |-> FALSE, at |-> 0]

RunIdle ==
  /\ scriptQueue = <<>>
  /\ isRunningRef = FALSE
  /\ isRunning = FALSE
  /\ inFlight = <<>>
  /\ pendingScripts = <<>>
  /\ checkedPendingScripts = {}
  /\ showPendingModal = FALSE
  /\ installModal = NoModal
  /\ installing = NotInstalling
  /\ autoRun = TRUE
  /\ started = <<>>
  /\ enqueued = <<>>
  /\ lastBatch = NoBatch
  /\ submits = 0

FullIdle ==
  /\ remoteMeta = NoMeta
  /\ fullPc = "idle"
  /\ fullResult = NoFull
  /\ fullStart = NoStart

DetectIdle ==
  /\ runAnswer = NoAnswer
  /\ offered = NoOffer

NoProps == [syncUrl |-> "", enabled |-> TRUE, autoLaunchClaude |-> FALSE]

TerminalIdle ==
  /\ termKind = "LocalTerminal"
  /\ termMounted = FALSE
  /\ termProps = NoProps
  /\ sockets = <<>>
  /\ xtermGen = 0
  /\ xtermLive = FALSE
  /\ display = <<>>
  /\ isTerminalConnected = FALSE
  /\ hasLaunchedClaudeRef = FALSE
  /\ effectWs = 0
  /\ received = 0
  /\ keys = 0

KeeperIdle ==
  /\ timeKeeper = <<>>
  /\ calls = <<>>
  /\ keeperInterval = FALSE

SelectIdle ==
  /\ serverProject = ""
  /\ projectPath = ""
  /\ folderName = ""
  /\ selectedTree = ""
  /\ selCalls = <<>>
  /\ pullProject = ""

ClassifyIdle ==
  /\ probe = [name |-> <<"x", "py">>, size |-> 0, readable |-> TRUE]
  /\ verdict = <<>>

PreviewIdle ==
  /\ pendingPreviewFiles = <<>>
  /\ autoPreviewDebounceRef = FALSE
  /\ reported = <<>>
  /\ bestFile = <<>>

TabsIdle ==
  /\ terminalIdCounter = 1
  /\ terminals = << 1 >>
  /\ activeTerminalId = 1

WatchIdle ==
  /\ watchEffect = 0
  /\ watchGen = 0
  /\ watchSockets = <<>>
  /\ wsRef = 0
  /\ handled = 0

AutoSyncIdle ==
  /\ selectedUrl = "cs1"
  /\ isSyncing = FALSE
  /\ effectIsSyncing = FALSE
  /\ autoSyncOn = FALSE
  /\ syncCalls = <<>>
  /\ applied = <<>>
  /\ lastSyncFrom = <<>>

LoadIdle ==
  /\ isAutoPreviewingRef = FALSE
  /\ loadingFile = ""
  /\ pendingFilePath = ""
  /\ retryTimers = <<>>
  /\ selectedFile = ""
  /\ lastRequested = ""
  /\ loadRequests = 0
  /\ inFlightLoads = 0

ViewIdle ==
  /\ rows = <<>>
  /\ totalRows = 0
  /\ isLoadingMore = FALSE
  /\ loadedUpTo = 0
  /\ filters = <<>>
  /\ sortConfig = <<>>
  /\ viewRequests = <<>>

ConnectIdle ==
  /\ isConnecting = FALSE
  /\ isConnected = FALSE
  /\ syncStatus = "idle"
  /\ pollPhase = "none"
  /\ attempts = 0
  /\ polls = 0
  /\ connectCalls = 0

OtherIdle == FullIdle /\ DetectIdle /\ TerminalIdle /\ KeeperIdle /\ SelectIdle /\ ClassifyIdle /\ PreviewIdle /\ TabsIdle /\ WatchIdle /\ AutoSyncIdle /\ LoadIdle /\ ViewIdle /\ ConnectIdle
IdleBesideConnect == FullIdle /\ DetectIdle /\ TerminalIdle /\ KeeperIdle /\ SelectIdle /\ ClassifyIdle /\ PreviewIdle /\ TabsIdle /\ WatchIdle /\ AutoSyncIdle /\ LoadIdle /\ ViewIdle
IdleBesideView == FullIdle /\ DetectIdle /\ TerminalIdle /\ KeeperIdle /\ SelectIdle /\ ClassifyIdle /\ PreviewIdle /\ TabsIdle /\ WatchIdle /\ AutoSyncIdle /\ LoadIdle /\ ConnectIdle
IdleBesideLoad == FullIdle /\ DetectIdle /\ TerminalIdle /\ KeeperIdle /\ SelectIdle /\ ClassifyIdle /\ PreviewIdle /\ TabsIdle /\ WatchIdle /\ AutoSyncIdle /\ ViewIdle /\ ConnectIdle
IdleBesideAutoSync == FullIdle /\ DetectIdle /\ TerminalIdle /\ KeeperIdle /\ SelectIdle /\ ClassifyIdle /\ PreviewIdle /\ TabsIdle /\ WatchIdle /\ LoadIdle /\ ViewIdle /\ ConnectIdle
IdleBesideWatch == FullIdle /\ DetectIdle /\ TerminalIdle /\ KeeperIdle /\ SelectIdle /\ ClassifyIdle /\ PreviewIdle /\ TabsIdle /\ AutoSyncIdle /\ LoadIdle /\ ViewIdle /\ ConnectIdle
IdleBesideTabs == FullIdle /\ DetectIdle /\ TerminalIdle /\ KeeperIdle /\ SelectIdle /\ ClassifyIdle /\ PreviewIdle /\ WatchIdle /\ AutoSyncIdle /\ LoadIdle /\ ViewIdle /\ ConnectIdle
IdleBesidePreview == FullIdle /\ DetectIdle /\ TerminalIdle /\ KeeperIdle /\ SelectIdle /\ ClassifyIdle /\ TabsIdle /\ WatchIdle /\ AutoSyncIdle /\ LoadIdle /\ ViewIdle /\ ConnectIdle
IdleBesideClassify == FullIdle /\ DetectIdle /\ TerminalIdle /\ KeeperIdle /\ SelectIdle /\ PreviewIdle /\ TabsIdle /\ WatchIdle /\ AutoSyncIdle /\ LoadIdle /\ ViewIdle /\ ConnectIdle
IdleBesideSelect == FullIdle /\ DetectIdle /\ TerminalIdle /\ KeeperIdle /\ ClassifyIdle /\ PreviewIdle /\ TabsIdle /\ WatchIdle /\ AutoSyncIdle /\ LoadIdle /\ ViewIdle /\ ConnectIdle
IdleBesideTerm == FullIdle /\ DetectIdle /\ KeeperIdle /\ SelectIdle /\ ClassifyIdle /\ PreviewIdle /\ TabsIdle /\ WatchIdle /\ AutoSyncIdle /\ LoadIdle /\ ViewIdle /\ ConnectIdle
IdleBesideKeeper == FullIdle /\ DetectIdle /\ TerminalIdle /\ SelectIdle /\ ClassifyIdle /\ PreviewIdle /\ TabsIdle /\ WatchIdle /\ AutoSyncIdle /\ LoadIdle /\ ViewIdle /\ ConnectIdle

\* Pulls against a remote that changes.
InitPull ==
  /\ \E S \in SUBSET RemoteSeed :
       remote \in [S -> [modified : Times, content : {"v1"}]]
  /\ appFolder = [q \in LocalSeed |-> "local"]
  /\ SyncIdle
  /\ ScanIdle
  /\ RunIdle
  /\ OtherIdle

PullNext ==
  \/ \E ok \in BOOLEAN : PullStart(ok)
  \/ \E ok \in BOOLEAN : PullFetched(ok)
  \/ \E ok, created \in BOOLEAN : PullWritten(ok, created)
  \/ PullAccept

PushNext ==
  \/ \E ok \in BOOLEAN : PushStart(ok)
  \/ \E ok \in BOOLEAN : PushUploaded(ok)
  \/ PushAccept

NextPull ==
  \/ PullNext
  \/ \E p \in RemoteSeed, t \in Times : RemoteEdit(p, t)
  \/ \E p \in RemoteSeed : RemoteDelete(p)

SpecPull == InitPull /\ [][NextPull]_vars

\* Pulls and pushes, in any interleaving, against a remote that changes.
InitSync ==
  /\ \E S \in SUBSET {P_a} :
       remote \in [S -> [modified : Times, content : {"v1"}]]
  /\ appFolder = [q \in LocalSeed |-> "local"]
  /\ SyncIdle
  /\ ScanIdle
  /\ RunIdle
  /\ OtherIdle

NextSync ==
  \/ PullNext
  \/ PushNext
  \/ \E t \in Times : RemoteEdit(P_a, t)
  \/ RemoteDelete(P_a)

SpecSync == InitSync /\ [][NextSync]_vars

\* Pushes and direct uploads of any app_folder of up to MaxLocalFiles files.
InitPush ==
  /\ remote = EmptyMap
  /\ \E L \in SUBSET Paths :
       /\ Cardinality(L) <= MaxLocalFiles
       /\ appFolder \in {f \in [L -> {"local", BigText}] :
                           \A q \in L : f[q] = BigText => q = P_farmertxt}
  /\ SyncIdle
  /\ ScanIdle
  /\ RunIdle
  /\ OtherIdle

NextPush ==
  \/ PushNext
  \/ \E p \in DirectPaths, ok \in BOOLEAN : UploadScript(p, ok)

SpecPush == InitPush /\ [][NextPush]_vars

\* Scans of any project folder of up to MaxScanFiles files, with files created
\* between them.
InitScan ==
  /\ \E F \in SUBSET ScanFiles :
       /\ Cardinality(F) <= MaxScanFiles
       /\ disk \in {f \in [F -> Sizes] : \A p \in F : f[p] \in SizesOf(p)}
       /\ dirs = ParentDirs(F)
  /\ creates = 0
  /\ tree = NoTree
  /\ deletedFiles = <<>>
  /\ scanned = EmptyMap
  /\ scanIo = [failDelete |-> {}, unreadable |-> {}]
  /\ ScanRest
  /\ remote = EmptyMap
  /\ appFolder = EmptyMap
  /\ SyncIdle
  /\ RunIdle
  /\ OtherIdle

NextScan ==
  \/ \E unreadable \in SUBSET Measured(disk) :
       \E failDelete \in SUBSET Attempted(disk, dirs, unreadable) :
         Scan(failDelete, unreadable)
  \/ \E p \in ScanFiles : \E size \in SizesOf(p) : CreateFile(p, size)

SpecScan == InitScan /\ [][NextScan]_vars

\* The queueing script runner, under any submissions.
InitQueue ==
  /\ remote = EmptyMap
  /\ appFolder = EmptyMap
  /\ SyncIdle
  /\ ScanIdle
  /\ RunIdle
  /\ OtherIdle

NextQueue ==
  \/ \E scriptPaths \in Arrays(MaxBatch) : QueueScripts(scriptPaths)
  \/ \E selected \in Selections : HandleRun(selected)
  \/ \E scriptPath \in ScriptPaths : ScriptChange(scriptPath)
  \/ \E scriptPath \in ScriptPaths : TogglePendingScript(scriptPath)
  \/ HandleApprovePending
  \/ HandleDismissPending
  \/ \E i \in 1..Len(inFlight), missingModule \in BOOLEAN : RunComplete(i, missingModule)
  \/ InstallStart
  \/ \E ok \in BOOLEAN : InstallDone(ok)
  \/ InstallCancel

SpecQueue == InitQueue /\ [][NextQueue]_vars

\* The queue under submissions, with runs that end in every way; every run request
\* is answered or fails in the end.
NextDrain ==
  \/ \E scriptPaths \in Arrays(MaxBatch) : QueueScripts(scriptPaths)
  \/ \E i \in 1..Len(inFlight), outcome \in RunOutcomes : RunEnded(i, outcome)

RunEnds == \E i \in 1..Len(inFlight), outcome \in RunOutcomes : RunEnded(i, outcome)

SpecDrain == InitQueue /\ [][NextDrain]_vars /\ WF_vars(RunEnds)

\* The script runner of ScriptRunner.jsx, under any submissions.
NextAutoRun ==
  \/ \E scriptPath \in ScriptPaths : ScriptChangeAuto(scriptPath)
  \/ \E selected \in Selections : HandleRunAuto(selected)
  \/ SetAutoRun
  \/ \E i \in 1..Len(inFlight) : RunCompleteAuto(i)

SpecAutoRun == InitQueue /\ [][NextAutoRun]_vars

\* Full syncs, one after the other, against a remote that changes between them.
FullFiles == {P_a, P_meta}
InitFull ==
  /\ \E S \in SUBSET FullFiles :
       remote \in [S -> [modified : Times, content : {"v1"}]]
  /\ \E L \in SUBSET {P_meta, P_metaout} :
       appFolder \in [L -> {"local", ""}]
  /\ SyncIdle
  /\ ScanIdle
  /\ RunIdle
  /\ OtherIdle

NextFull ==
  \/ FullStart
  \/ fullPc = "pull" /\ \E ok \in BOOLEAN : PullStart(ok)
  \/ \E ok \in BOOLEAN : PullFetched(ok)
  \/ \E ok, created \in BOOLEAN : PullWritten(ok, created)
  \/ \E ok \in BOOLEAN : FullReturn(ok)
  \/ FullAccept
  \/ fullPc = "idle" /\ \E p \in FullFiles, t \in Times : RemoteEdit(p, t)

SpecFull == InitFull /\ [][NextFull]_vars

\* Run requests answered in any way, and install modals closed.
NextDetect ==
  \/ \E answer \in RunAnswers : RunAnswered(answer)
  \/ OfferClosed

SpecDetect == InitQueue /\ [][NextDetect]_vars

\* A terminal of each kind, not yet mounted.
InitTerminal ==
  /\ remote = EmptyMap
  /\ appFolder = EmptyMap
  /\ SyncIdle
  /\ ScanIdle
  /\ RunIdle
  /\ IdleBesideTerm
  /\ termKind \in TerminalKinds
  /\ termMounted = FALSE
  /\ termProps \in {p \in TerminalProps :
                      /\ termKind = "LocalTerminal" => p = NoProps
                      /\ termKind = "Terminal48" => p.autoLaunchClaude}
  /\ sockets = <<>>
  /\ xtermGen = 0
  /\ xtermLive = FALSE
  /\ display = <<>>
  /\ isTerminalConnected = FALSE
  /\ hasLaunchedClaudeRef = FALSE
  /\ effectWs = 0
  /\ received = 0
  /\ keys = 0

NextTerminal ==
  \/ \E props \in TerminalProps : Mount(props)
  \/ Unmount
  \/ \E syncUrl \in SyncUrls, enabled \in BOOLEAN : ChangeInputs(syncUrl, enabled)
  \/ \E i \in 1..Len(sockets) : Open(i)
  \/ \E i \in 1..Len(sockets) : LaunchFire(i)
  \/ \E i \in 1..Len(sockets) : PingFire(i)
  \/ \E i \in 1..Len(sockets) : Key(i)
  \/ \E i \in 1..Len(sockets) : PeerClose(i)
  \/ \E i \in 1..Len(sockets) : CloseDone(i)
  \/ \E i \in 1..Len(sockets) : IdleClose(i)
  \/ TerminalTick

SpecTerminal == InitTerminal /\ [][NextTerminal]_vars

\* The same terminal with no clock: what it receives and shows.
NextDisplay ==
  \/ \E props \in TerminalProps : Mount(props)
  \/ Unmount
  \/ \E syncUrl \in SyncUrls, enabled \in BOOLEAN : ChangeInputs(syncUrl, enabled)
  \/ \E i \in 1..Len(sockets) : Open(i)
  \/ \E i \in 1..Len(sockets), m \in Messages : Receive(i, m)
  \/ \E i \in 1..Len(sockets) : PeerClose(i)
  \/ \E i \in 1..Len(sockets) : CloseDone(i)

SpecDisplay == InitTerminal /\ [][NextDisplay]_vars

\* The time keeper, with the file absent or holding one earlier line.
InitKeeper ==
  /\ remote = EmptyMap
  /\ appFolder = EmptyMap
  /\ SyncIdle
  /\ ScanIdle
  /\ RunIdle
  /\ IdleBesideKeeper
  /\ timeKeeper \in {<<>>, << PingLine(0) >>}
  /\ calls = <<>>
  /\ keeperInterval = FALSE

NextKeeper ==
  \/ KeeperConnect
  \/ KeeperDisconnect
  \/ KeeperTick
  \/ \E i \in 1..Len(calls), outcome \in Outcomes : KeeperRead(i, outcome)
  \/ \E i \in 1..Len(calls), outcome \in Outcomes, landed \in BOOLEAN :
       KeeperWrite(i, outcome, landed)

SpecKeeper == InitKeeper /\ [][NextKeeper]_vars

\* The files of the polled project folder.
PollFiles == {F_secret, F_script, F_notes, F_readme}

InitPoll ==
  /\ \E F \in SUBSET PollFiles :
       /\ Cardinality(F) <= MaxScanFiles
       /\ disk \in {f \in [F -> Sizes] : \A p \in F : f[p] \in SizesOf(p)}
       /\ dirs = ParentDirs(F)
  /\ creates = 0
  /\ tree = NoTree
  /\ deletedFiles = <<>>
  /\ scanned = EmptyMap
  /\ scanIo = [failDelete |-> {}, unreadable |-> {}]
  /\ ScanRest
  /\ remote = EmptyMap
  /\ appFolder = EmptyMap
  /\ SyncIdle
  /\ RunIdle
  /\ OtherIdle

\* The polling loop over a project folder that is written to from outside.
NextPoll ==
  \/ \E unreadable \in SUBSET DOMAIN disk :
       \E failDelete \in SUBSET Attempted(disk, dirs, unreadable) :
         Poll(failDelete, unreadable)
  \/ \E p \in PollFiles : \E size \in SizesOf(p) : CreateFile(p, size)
  \/ \E p \in PollFiles : TouchFile(p)

SpecPoll == InitPoll /\ [][NextPoll]_vars

\* A project folder with files next to directories, and names in both letter cases.
F_top == << <<"notes", "txt">> >>
OrderFiles == {F_readme, F_top, F_notes, F_script, F_input}

InitOrder ==
  /\ \E F \in SUBSET OrderFiles :
       /\ Cardinality(F) <= MaxScanFiles
       /\ disk \in {f \in [F -> Sizes] : \A p \in F : f[p] \in SizesOf(p)}
       /\ dirs = ParentDirs(F)
  /\ creates = 0
  /\ tree = NoTree
  /\ deletedFiles = <<>>
  /\ scanned = EmptyMap
  /\ scanIo = [failDelete |-> {}, unreadable |-> {}]
  /\ modified = [p \in OrderFiles |-> 1]
  /\ quiet = FALSE
  /\ shownTree = <<>>
  /\ treeReplaced = FALSE
  /\ remote = EmptyMap
  /\ appFolder = EmptyMap
  /\ SyncIdle
  /\ RunIdle
  /\ OtherIdle

NextOrder ==
  \/ \E unreadable \in SUBSET Measured(disk) :
       \E failDelete \in SUBSET Attempted(disk, dirs, unreadable) :
         Scan(failDelete, unreadable)
  \/ \E p \in OrderFiles : \E size \in SizesOf(p) : CreateFile(p, size)

SpecOrder == InitOrder /\ [][NextOrder]_vars

\* Folders selected one after another, the later before the earlier is done.
InitSelect ==
  /\ remote = EmptyMap
  /\ appFolder = EmptyMap
  /\ SyncIdle
  /\ ScanIdle
  /\ RunIdle
  /\ OtherIdle

SelectNext ==
  \/ \E path \in Projects : FolderSelected(path)
  \/ \E i \in 1..Len(selCalls), ok \in BOOLEAN : ServeSelect(i, ok)
  \/ \E i \in 1..Len(selCalls) : SelectReturned(i)
  \/ \E i \in 1..Len(selCalls), ok \in BOOLEAN : ServeTree(i, ok)
  \/ \E i \in 1..Len(selCalls) : TreeReturned(i)

SpecSelect == InitSelect /\ [][SelectNext]_vars

\* A project is open and its app_folder is pulled into while folders are selected.
ReselectFiles == {P_a}

InitReselect ==
  /\ \E S \in SUBSET ReselectFiles :
       remote \in [S -> [modified : Times, content : {"v1"}]]
  /\ appFolder = EmptyMap
  /\ SyncIdle
  /\ ScanIdle
  /\ RunIdle
  /\ IdleBesideSelect
  /\ serverProject = "P1"
  /\ projectPath = "P1"
  /\ folderName = NameOf("P1")
  /\ selectedTree = "P1"
  /\ selCalls = <<>>
  /\ pullProject = ""

NextReselect ==
  \/ \E ok \in BOOLEAN : PullStartUnder(ok)
  \/ \E ok \in BOOLEAN : PullFetched(ok)
  \/ \E ok, created \in BOOLEAN : PullWritten(ok, created)
  \/ PullAccept
  \/ SelectNext

SpecReselect == InitReselect /\ [][NextReselect]_vars

\* shouldDeleteFile on any file handle.
InitClassify ==
  /\ remote = EmptyMap
  /\ appFolder = EmptyMap
  /\ SyncIdle
  /\ ScanIdle
  /\ RunIdle
  /\ IdleBesideClassify
  /\ probe \in [name : ProbeNames, size : ProbeSizes, readable : BOOLEAN]
  /\ verdict = <<>>

NextClassify == Classify

SpecClassify == InitClassify /\ [][NextClassify]_vars

\* Output files reported to the auto-preview.
InitPreview ==
  /\ remote = EmptyMap
  /\ appFolder = EmptyMap
  /\ SyncIdle
  /\ ScanIdle
  /\ RunIdle
  /\ OtherIdle

NextPreview ==
  \/ \E filePath \in OutputFiles : OutputFileChange(filePath)
  \/ DebounceFire

SpecPreview == InitPreview /\ [][NextPreview]_vars

\* Terminals added, closed and cleared in any order.
InitTabs ==
  /\ remote = EmptyMap
  /\ appFolder = EmptyMap
  /\ SyncIdle
  /\ ScanIdle
  /\ RunIdle
  /\ OtherIdle

NextTabs ==
  \/ addTerminal
  \/ \E id \in 1..terminalIdCounter : closeTerminal(id)
  \/ clearTerminals
  \/ \E id \in 1..terminalIdCounter : TabClicked(id)

SpecTabs == InitTabs /\ [][NextTabs]_vars

\* A component with a watch effect is mounted, re-rendered and unmounted while its
\* sockets close.
InitWatch ==
  /\ remote = EmptyMap
  /\ appFolder = EmptyMap
  /\ SyncIdle
  /\ ScanIdle
  /\ RunIdle
  /\ OtherIdle

NextWatch ==
  \/ WatchMount
  \/ WatchDepsChange
  \/ WatchUnmount
  \/ \E i \in 1..Len(watchSockets) : WatchClosed(i)
  \/ \E i \in 1..Len(watchSockets) : ReconnectFire(i)
  \/ WatchEvent

SpecWatch == InitWatch /\ [][NextWatch]_vars

\* A connected CodespaceSync with its auto-sync, its button and its codespace list.
InitAutoSync ==
  /\ remote = EmptyMap
  /\ appFolder = EmptyMap
  /\ SyncIdle
  /\ ScanIdle
  /\ RunIdle
  /\ OtherIdle

NextAutoSync ==
  \/ AutoSyncStart
  \/ AutoSyncStop
  \/ AutoSyncTick
  \/ SyncNow
  \/ \E i \in 1..Len(syncCalls), ok \in BOOLEAN : SyncReturned(i, ok)
  \/ \E url \in Codespaces : handleSelectCodespace(url)

SpecAutoSync == InitAutoSync /\ [][NextAutoSync]_vars

\* Output files handed to the preview loader while it loads.
InitLoad ==
  /\ remote = EmptyMap
  /\ appFolder = EmptyMap
  /\ SyncIdle
  /\ ScanIdle
  /\ RunIdle
  /\ OtherIdle

NextLoad ==
  \/ \E filePath \in LoadFiles : LoadRequested(filePath)
  \/ LoadDone
  \/ \E i \in 1..Len(retryTimers) : RetryFire(i)

SpecLoad == InitLoad /\ [][NextLoad]_vars

\* ------------------------------------------------------------ claims: synchronizer

\* The extension of a file, as the policy reads it: the text after the last '.' of
\* its name, in lower case; a name with no '.' has none.
HasExtensionIn(path, exts) ==
  /\ Len(Last(path)) > 1
  /\ toLowerCase(Last(Last(path))) \in exts

ForbiddenForSync(path) ==
  HasExtensionIn(path, {"pdf", "csv", "xlsx", "xls", "xlsm", "xlsb", "ppt", "pptx"})

\* C2: no upload request is ever issued, by a push or by a direct uploadScript call,
\* for a file whose extension is forbidden for sync in any letter case, and a direct
\* call for such a file is blocked (it makes no request).
C2_NoForbiddenUpload ==
  /\ \A p \in uploads : ~ForbiddenForSync(p)
  /\ \A i \in 1..Len(pushedFiles) : ~ForbiddenForSync(pushedFiles[i])
  /\ (uploadCall.outcome # "none" /\ ForbiddenForSync(uploadCall.path))
       => uploadCall.outcome = "blocked"

\* C2's case: a push of an app_folder that holds report.PDF has returned with
\* uploads made, and a direct uploadScript call for report.PDF has been refused.
C2_Witness ==
  /\ pushPc = "returned"
  /\ P_pdf \in DOMAIN appFolder
  /\ Len(pushResult.pushedFiles) > 0
  /\ uploadCall = [path |-> P_pdf, outcome |-> "blocked"]

\* C3: no step lowers or removes an entry of the sync vector, and a step of a push
\* leaves the vector as it is.
C3_VectorMonotone ==
  [][ /\ \A p \in DOMAIN lastSync :
           p \in DOMAIN lastSync' /\ lastSync'[p] >= lastSync[p]
      /\ (pushVars' # pushVars) => (lastSync' = lastSync) ]_vars

\* C3's case: a pull has returned for a file whose remote time is now below its
\* vector entry, after a push has uploaded.
C3_Witness ==
  /\ pullPc = "returned"
  /\ uploads # {}
  /\ P_a \in DOMAIN lastSync
  /\ P_a \in DOMAIN remote
  /\ Floor(remote[P_a].modified) < lastSync[P_a]
  /\ pullResult.lastSync[P_a] = lastSync[P_a]

\* C6: a pull that repeats the last one (the listing is unchanged and the vector is
\* the one that pull returned) fetches nothing, writes nothing, and returns no synced
\* file and the vector it was given.
C6_PullIdempotent ==
  fresh =>
    /\ pullPc \notin {"fetch", "write"}
    /\ pullFetched = {}
    /\ pullWritten = {}
    /\ pullPc = "returned" =>
         /\ pullResult.syncedFiles = <<>>
         /\ pullResult.lastSync = lastSync

\* Forbidden in app_folder, as the policy reads it: a csv, xlsx, xls or json file in
\* any letter case, or a .txt of more than 50 KiB.
ForbiddenInApp(path, size) ==
  \/ HasExtensionIn(path, {"csv", "xlsx", "xls", "json"})
  \/ HasExtensionIn(path, {"txt"}) /\ size > 50 * 1024

\* C7: a pull neither fetches nor writes a file of the remote listing whose path is
\* forbidden in app_folder, and leaves no such file under the local app_folder.
C7_PullSkipsForbidden ==
  \A p \in pullFetched \cup pullWritten \cup DOMAIN appFolder :
    ~HasExtensionIn(p, {"csv", "xlsx", "xls", "json"})

\* C8: within a pull a file is written only after it was fetched, an entry of the
\* vector differs from the caller's only for a file this pull has written, and then it
\* is the floored remote time; the file at which a pull failed keeps its entry.
C8_VectorAfterWrite ==
  /\ pullWritten \subseteq pullFetched
  /\ \A p \in DOMAIN newLastSync :
       (p \notin DOMAIN lastSync \/ newLastSync[p] # lastSync[p]) => p \in pullWritten
  /\ \A i \in 1..Len(scripts) :
       scripts[i].path \in pullWritten =>
         newLastSync[scripts[i].path] = Floor(scripts[i].modified)
  /\ (pullPc = "thrown" /\ idx <= Len(scripts)) =>
       LET p == scripts[idx].path
       IN /\ p \notin pullWritten
          /\ IF p \in DOMAIN lastSync
             THEN newLastSync[p] = lastSync[p]
             ELSE p \notin DOMAIN newLastSync

\* C8's case: a pull has written one file and then failed at the next one.
C8_Witness ==
  /\ pullPc = "thrown"
  /\ pullWritten # {}
  /\ idx <= Len(scripts)
  /\ scripts[idx].path \in pullFetched

\* C9 as stated: a failed pull returns the vector updated for the files written so
\* far, and a failed push returns the list of the paths pushed so far.
C9_PartialResultReturned ==
  /\ pullPc = "thrown" => (pullResult.ok /\ pullResult.lastSync = newLastSync)
  /\ pushPc = "thrown" => (pushResult.ok /\ pushResult.pushedFiles = pushedFiles)

\* C9, amended: a failed pull or push raises the error and returns nothing (a full
\* sync reports the error with no pull result), although the files written and the
\* uploads made before the failure stay.
C9_FailureThrows ==
  /\ pullPc = "thrown" =>
       /\ pullResult = NoResult
       /\ runFullSync(pullResult) = [scriptsSync |-> NoResult, error |-> TRUE]
       /\ pullWritten \subseteq DOMAIN appFolder
  /\ pushPc = "thrown" =>
       /\ pushResult = NoPush
       /\ \A i \in 1..Len(pushedFiles) : pushedFiles[i] \in uploads

\* C9's case: a pull has failed after writing a file while a push has failed after
\* an upload.
C9_Witness ==
  /\ pullPc = "thrown"
  /\ pullWritten # {}
  /\ pushPc = "thrown"
  /\ Len(pushedFiles) > 0

\* The files the remote owns, as C10 names them: sync_server.*, metadatafarmer.*,
\* CLAUDE.md, and whatever lies in a meta_data directory.
ProtectedByPattern(path) ==
  \/ Len(Last(path)) > 1 /\ Last(path)[1] \in {"sync_server", "metadatafarmer"}
  \/ Last(path) = <<"CLAUDE", "md">>
  \/ \E i \in 1..(Len(path) - 1) : path[i] = <<"meta_data">>

\* The same with the names taken literally.
ProtectedByName(path) ==
  \/ Last(path) \in { <<"sync_server", "py">>, <<"metadatafarmer", "py">>, <<"CLAUDE", "md">> }
  \/ \E i \in 1..(Len(path) - 1) : path[i] = <<"meta_data">>

\* C10 as stated: a push neither collects nor reports as pushed a file named
\* sync_server.*, metadatafarmer.* or CLAUDE.md, or a file in a meta_data directory.
C10_NoProtectedByPattern ==
  /\ \A i \in 1..Len(files) : ~ProtectedByPattern(files[i].path)
  /\ \A i \in 1..Len(pushedFiles) : ~ProtectedByPattern(pushedFiles[i])

\* C10, amended: a push neither collects nor reports as pushed a file named exactly
\* sync_server.py, metadatafarmer.py or CLAUDE.md, or a file in a meta_data directory;
\* an app_folder of scripts/x.py and sync_server.py is pushed as [scripts/x.py].
C10_NoProtectedByName ==
  /\ \A i \in 1..Len(files) : ~ProtectedByName(files[i].path)
  /\ \A i \in 1..Len(pushedFiles) : ~ProtectedByName(pushedFiles[i])
  /\ (pushPc = "returned" /\ DOMAIN appFolder = {P_x, P_server}) =>
       pushResult.pushedFiles = <<P_x>>

\* C10's case: the push of an app_folder of scripts/x.py and sync_server.py has
\* returned.
C10_Witness ==
  /\ pushPc = "returned"
  /\ DOMAIN appFolder = {P_x, P_server}
  /\ pushResult.pushedFiles = <<P_x>>

\* ------------------------------------------------------------ claims: full sync

\* The pull as an operation of its own that does not fail, from entry i of the
\* listing scr on: the app_folder, the vector and the synced files it ends with.
RECURSIVE SeqPull(_, _, _, _, _)
SeqPull(r, scr, last, st, i) ==
  IF i > Len(scr) THEN st
  ELSE LET e == scr[i]
       IN SeqPull(r, scr, last,
                  IF NeedsDownload(last, e)
                  THEN [appFolder |-> Put(st.appFolder, e.path, r[e.path].content),
                        lastSync |-> Put(st.lastSync, e.path, Floor(e.modified)),
                        syncedFiles |-> Append(st.syncedFiles, e.path)]
                  ELSE [st EXCEPT !.lastSync = Put(st.lastSync, e.path, last[e.path])],
                  i + 1)

PullAlone(r, fs, last) ==
  SeqPull(r, listScripts(r), last,
          [appFolder |-> fs, lastSync |-> last, syncedFiles |-> <<>>], 1)

\* The metadata push as an operation of its own that does not fail: the metadata the
\* codespace ends with.
MetadataAlone(fs, meta) == syncMetadataToCodespace(fs, meta, TRUE).remoteMeta

\* A full sync has returned and nothing in it has failed.
FullDone == fullPc = "returned" /\ ~fullResult.sync.error /\ fullStart.uploadOk

RECURSIVE FileNodes(_)
FileNodes(node) ==
  IF ~node.isDirectory THEN {node}
  ELSE UNION {FileNodes(node.children[i]) : i \in 1..Len(node.children)}

\* The path of a node below the project folder.
Below(node) == Tail(node.path)

\* A path below the project folder's app_folder.
UnderAppFolder(path) == Len(path) > 1 /\ path[1] = <<"app_folder">>

C4_OneAtATimeFifo ==
  /\ Len(inFlight) <= 1
  /\ IsPrefix(started, enqueued)

\* The runs started since the last queueScripts call.
StartedSince == SubSeq(started, lastBatch.at + 1, Len(started))

\* C5: the waiting queue never holds a path twice, and after queueScripts([a, b, a])
\* on an idle runner the runs started and the paths waiting are a then b: once the
\* runner is idle again exactly a, then b, have run.
C5_DedupAtEnqueue ==
  /\ \A i, j \in 1..Len(scriptQueue) : scriptQueue[i] = scriptQueue[j] => i = j
  /\ (lastBatch.paths = <<S_a, S_b, S_a>> /\ lastBatch.idle) =>
       /\ StartedSince \o scriptQueue = <<S_a, S_b>>
       /\ ~isRunningRef => StartedSince = <<S_a, S_b>>

\* C5's case: queueScripts([a, b, a]) was called on an idle runner, and the runner is
\* idle again after two runs.
C5_Witness ==
  /\ lastBatch.paths = <<S_a, S_b, S_a>>
  /\ lastBatch.idle
  /\ ~isRunningRef
  /\ inFlight = <<>>
  /\ Len(StartedSince) = 2

\* C12: a step that handles a script_change event of the watch channel starts no run:
\* it leaves the runs started and the run requests in flight as they were.
C12_NoAutoRun ==
  [][ (\E scriptPath \in ScriptPaths : ScriptChange(scriptPath) \/ ScriptChangeAuto(scriptPath))
        => (started' = started /\ inFlight' = inFlight) ]_vars

\* The module a stderr names first, if any: the X of its first
\* "ModuleNotFoundError: No module named 'X'".
NamesModule(stderr) == \E i \in 1..Len(stderr) : stderr[i].kind = "missing"
FirstNamed(stderr) ==
  stderr[CHOOSE i \in 1..Len(stderr) :
           /\ stderr[i].kind = "missing"
           /\ \A j \in 1..(i - 1) : stderr[j].kind # "missing"].module

\* The alias table of the policy.
Alias(name) ==
  CASE name = "PIL" -> "pillow"
    [] name = "cv2" -> "opencv-python"
    [] name = "sklearn" -> "scikit-learn"
    [] name = "yaml" -> "pyyaml"
    [] OTHER -> name

\* C13: every answered run whose stderr names a missing module X is classified as
\* missing module, and the package offered is the alias of the top-level component
\* of X, or that component itself when it has no alias.
C13_OfferedPackage ==
  (runAnswer.ok /\ NamesModule(runAnswer.stderr)) =>
    /\ offered.show
    /\ offered.module = Alias(FirstNamed(runAnswer.stderr)[1])

\* ------------------------------------------------------------ claims: terminal

Pings(i) == {j \in 1..Len(sockets[i].sent) : sockets[i].sent[j].type = "ping"}

\* Socket i gets one more frame in this step.
Sends(i) ==
  /\ i \in 1..Len(sockets')
  /\ Len(sockets'[i].sent) = Len(sockets[i].sent) + 1

C14_State ==
  IsRemote(termKind) =>
    /\ PingMs(termKind) \in 25000..30000
    /\ \A i \in 1..Len(sockets) :
         /\ sockets[i].cause # "idle"
         /\ sockets[i].state = "open" =>
              /\ sockets[i].pingInterval
              /\ sockets[i].sincePing <= PingTicks(termKind)
              /\ sockets[i].idle <= PingTicks(termKind)
         /\ sockets[i].state \in {"closing", "closed"} => ~sockets[i].pingInterval

C14_Step ==
  \A i \in 1..Len(sockets) :
    (Sends(i) /\ Last(sockets'[i].sent) = PingFrame) =>
      /\ IsRemote(termKind)
      /\ sockets[i].state = "open"
      /\ sockets[i].sincePing = PingTicks(termKind)

\* C14: an open socket of a remote terminal has its keepalive interval running, with
\* a period of 25 to 30 s; no more than one period passes without a ping, the other
\* side never sees it idle for 90 s, so it is never closed for idleness; a ping is
\* sent only to an open socket, one whole period after the last; a socket that is
\* closing or closed has no interval left.
C14_Keepalive == []C14_State /\ [][C14_Step]_vars

\* Two pings have gone out on an open socket of a remote terminal with no keystroke.
C14_Witness ==
  /\ IsRemote(termKind)
  /\ \E i \in 1..Len(sockets) :
       /\ sockets[i].state = "open"
       /\ Cardinality(Pings(i)) >= 2
       /\ \A j \in 1..Len(sockets[i].sent) : sockets[i].sent[j] # DataFrame("key")

\* A message that is a pong reply and nothing else.
IsPongFrame(m) == m \in { <<"pong">>, <<"pong_sp">> }

\* C15: of the messages a remote terminal receives, a pong frame adds nothing to the
\* terminal display, and any other message is added to it unchanged.
C15_PongFiltered ==
  [][ \A i \in 1..Len(sockets), m \in Messages :
        (Receive(i, m) /\ IsRemote(termKind) /\ XtermOf(i)) =>
          display' = (IF IsPongFrame(m) THEN display ELSE display \o m) ]_vars

\* C16: every socket that has opened has sent the resize frame with the fixed columns
\* and rows as its first frame, and no resize frame after it.
C16_ResizeFirstOnly ==
  \A i \in 1..Len(sockets) :
    /\ sockets[i].state = "open" => Len(sockets[i].sent) >= 1
    /\ Len(sockets[i].sent) >= 1 =>
         /\ sockets[i].sent[1] = [type |-> "resize", cols |-> 80, data |-> "",
                                  rows |-> (CASE termKind = "Terminal" -> 73
                                              [] termKind = "Terminal48" -> 48
                                              [] termKind = "LocalTerminal" -> 20)]
         /\ \A j \in 2..Len(sockets[i].sent) : sockets[i].sent[j].type # "resize"

\* A socket has sent a keystroke or the launched command, and a ping, after its resize.
C16_Witness ==
  \E i \in 1..Len(sockets) :
    /\ Len(sockets[i].sent) >= 3
    /\ \E j \in 2..Len(sockets[i].sent) : sockets[i].sent[j].type = "data"
    /\ \E j \in 2..Len(sockets[i].sent) : sockets[i].sent[j].type = "ping"

\* Socket i closes in this step.
Closes(i) ==
  /\ sockets[i].state # "closed"
  /\ i \in 1..Len(sockets')
  /\ sockets'[i].state = "closed"

\* C17: the close of a socket of a terminal that has not been torn down marks the
\* terminal disconnected and, if the xterm of that socket is still there, adds the
\* closed notice to it; and a step creates a WebSocket only if it creates the
\* component or changes its connection inputs.
C17_NoSilentReconnect ==
  [][ /\ \A i \in 1..Len(sockets) :
           (Closes(i) /\ ~sockets[i].stale) =>
             /\ ~isTerminalConnected'
             /\ XtermOf(i) =>
                  /\ display' # <<>>
                  /\ Last(display') \in {"Connection closed", "Disconnected"}
      /\ Len(sockets') > Len(sockets) =>
           /\ termMounted'
           /\ ~termMounted \/ termProps' # termProps ]_vars

\* A socket that was open has been closed by the other side, its notice is shown, the
\* terminal is marked disconnected and has no other socket.
C17_Witness ==
  /\ termMounted
  /\ ~isTerminalConnected
  /\ Len(sockets) = 1
  /\ sockets[1].state = "closed"
  /\ sockets[1].cause = "peer"
  /\ display # <<>>
  /\ Last(display) \in {"Connection closed", "Disconnected"}

\* ------------------------------------------------------------ claims: time keeper

C18_State ==
  \A i \in 1..Len(calls) :
    /\ calls[i].result # "thrown"
    /\ calls[i].pc = "done" =>
         /\ calls[i].result \in {"true", "false"}
         /\ calls[i].write # "ok" => calls[i].result = "false"
         /\ calls[i].write = "ok" => calls[i].result = "true"
    /\ (calls[i].pc # "read" /\ calls[i].read # "ok") => calls[i].existingContent = <<>>

C18_Step ==
  (\E i \in 1..Len(calls), outcome \in Outcomes, landed \in BOOLEAN :
      KeeperRead(i, outcome) \/ KeeperWrite(i, outcome, landed)) =>
    keeperInterval' = keeperInterval

\* C18: no call of writeTimeKeeper throws; a call whose write request fails, by a
\* network error or a status that is not 2xx, returns false; a call whose read
\* request fails goes on with empty previous content; and the end of a request,
\* failed or not, leaves the interval that makes the later calls as it was.
C18_FailuresIgnored == []C18_State /\ [][C18_Step]_vars

\* One call has failed to write, a call after it has read in vain and still written,
\* and the interval is set.
C18_Witness ==
  /\ keeperInterval
  /\ \E i, j \in 1..Len(calls) :
       /\ i < j
       /\ calls[i].pc = "done"
       /\ calls[i].write \in {"status", "throw"}
       /\ calls[j].pc = "done"
       /\ calls[j].read \in {"status", "throw"}
       /\ calls[j].result = "true"

\* C19: the write of a call that succeeds leaves the file with what it held before
\* followed by exactly one new line.
C19_Appends ==
  [][ \A i \in 1..Len(calls) :
        (KeeperWrite(i, "ok", TRUE)) =>
          /\ Len(timeKeeper') = Len(timeKeeper) + 1
          /\ SubSeq(timeKeeper', 1, Len(timeKeeper)) = timeKeeper ]_vars

\* ------------------------------------------------------------ claims: reported files

\* No directory on the way to the file is one a scan skips.
Visited(path) == \A k \in 1..(Len(path) - 1) : path[k] \notin SKIP_FOLDERS

\* A scan finds the file forbidden in app_folder: it is under app_folder, the scan
\* comes to it, and it has a forbidden extension or is a .txt whose size the scan
\* reads as more than 50 KiB.
FoundForbidden(path, size, unreadable) ==
  /\ UnderAppFolder(path)
  /\ Visited(path)
  /\ \/ HasExtensionIn(path, {"csv", "xlsx", "xls", "json"})
     \/ HasExtensionIn(path, {"txt"}) /\ size > 50 * 1024 /\ path \notin unreadable

\* C20: after a scan, the name of every file the scan found forbidden in app_folder
\* is in deletedFiles, whether its removal failed or not, and the file is no longer
\* on disk unless its removal failed.
C20_ReportedWhetherRemoved ==
  [][ creates' = creates =>
        \A path \in DOMAIN scanned' :
          FoundForbidden(path, scanned'[path], scanIo'.unreadable) =>
            /\ Last(path) \in Range(deletedFiles')
            /\ path \notin scanIo'.failDelete => path \notin DOMAIN disk' ]_vars

\* A scan has found two forbidden files in app_folder; the removal of one has failed
\* and it is still on disk, the other is gone, and both are reported.
C20_Witness ==
  \E gone, stays \in DOMAIN scanned :
    /\ FoundForbidden(gone, scanned[gone], scanIo.unreadable)
    /\ FoundForbidden(stays, scanned[stays], scanIo.unreadable)
    /\ stays \in scanIo.failDelete
    /\ stays \in DOMAIN disk
    /\ gone \notin scanIo.failDelete
    /\ gone \notin DOMAIN disk
    /\ {Last(gone), Last(stays)} \subseteq Range(deletedFiles)

\* ------------------------------------------------------------ claims: polling

AllSelected ==
  /\ \A i \in 1..Len(selCalls) : selCalls[i].pc = "done" /\ selCalls[i].tree # ""

\* C22: once two overlapping selections are over, whichever way their requests were
\* answered, the project path, the folder name and the tree shown are those of the
\* selection made last.
C22_LastSelectionWins ==
  (Len(selCalls) >= 2 /\ AllSelected) =>
    /\ projectPath = Last(selCalls).path
    /\ folderName = NameOf(Last(selCalls).path)
    /\ selectedTree = Last(selCalls).path

\* C23: while the project shown is not the one under which the pull in flight was
\* started, that pull writes no file and its result does not become the vector.
C23_ReselectedPullInert ==
  [][ (pullPc # "idle" /\ pullProject # projectPath) =>
        (appFolder' = appFolder /\ lastSync' = lastSync) ]_vars

\* ------------------------------------------------------------ claims: what a pull takes

\* The entries of the listing that are new or newer than the vector, as the policy
\* reads it: no vector entry, or a floored time above the floored vector entry.
Due ==
  { i \in 1..Len(scripts) :
      \/ scripts[i].path \notin DOMAIN lastSync
      \/ Floor(scripts[i].modified) > Floor(lastSync[scripts[i].path]) }

\* C24: a pull that has returned has fetched and written exactly the entries that
\* have no vector entry or a floored time above the floored vector entry; each is
\* under app_folder and has the floored remote time as its entry of the vector returned.
C24_PullsExactlyNewer ==
  pullPc = "returned" =>
    /\ pullFetched = { scripts[i].path : i \in Due }
    /\ pullWritten = { scripts[i].path : i \in Due }
    /\ \A i \in Due :
         /\ scripts[i].path \in DOMAIN appFolder
         /\ pullResult.lastSync[scripts[i].path] = Floor(scripts[i].modified)

\* ------------------------------------------------------------ claims: no automatic retry

\* C25: the answer to a run never enqueues a script, whether or not a module was
\* missing; an install that failed or was refused, and a cancelled modal, enqueue and
\* start nothing; an install that reported success leaves its script queued or started.
C25_RerunOnlyAfterInstall ==
  [][ /\ (\E i \in 1..Len(inFlight), missingModule \in BOOLEAN : RunComplete(i, missingModule))
           => enqueued' = enqueued
      /\ InstallDone(FALSE) => (enqueued' = enqueued /\ started' = started /\ scriptQueue' = scriptQueue)
      /\ InstallCancel => (enqueued' = enqueued /\ started' = started /\ scriptQueue' = scriptQueue)
      /\ InstallDone(TRUE) =>
           \/ includes(scriptQueue', installing.scriptPath)
           \/ started' = Append(started, installing.scriptPath) ]_vars

\* C25's case: a run of a script has failed for a missing module, its install has been
\* confirmed and is not answered yet, and the script is neither queued nor running.
C25_Witness ==
  /\ installing.active
  /\ includes(started, installing.scriptPath)
  /\ ~includes(scriptQueue, installing.scriptPath)
  /\ inFlight = <<>>

\* ------------------------------------------------------------ claims: classifier

\* C26: shouldDeleteFile answers true exactly for a file whose extension is csv, xlsx,
\* xls or json in any letter case and for a .txt of more than 50 KiB, and false for
\* every other file.
C26_ClassifiesExactly ==
  verdict # <<>> => (verdict[1] <=> ForbiddenInApp(<< probe.name >>, probe.size))

\* ------------------------------------------------------------ claims: order of the tree

\* The directory nodes of a tree.
RECURSIVE DirNodes(_)
DirNodes(node) ==
  IF ~node.isDirectory THEN {}
  ELSE {node} \cup UNION {DirNodes(node.children[i]) : i \in 1..Len(node.children)}

\* Where a name stands among the names of the model, letter case put aside.
NameRank(name) == CHOOSE i \in 1..Len(LocaleOrder) : LocaleOrder[i] = LowerName(name)

\* C27: in the tree of a scan the children of every directory node have the
\* directories before the files, and the directories and the files are each in the
\* order of their names, letter case put aside.
C27_ChildrenOrdered ==
  tree # NoTree =>
    \A d \in DirNodes(tree) :
      \A i, j \in 1..Len(d.children) :
        i < j =>
          /\ ~(~d.children[i].isDirectory /\ d.children[j].isDirectory)
          /\ (d.children[i].isDirectory = d.children[j].isDirectory)
               => NameRank(d.children[i].name) < NameRank(d.children[j].name)

\* C27's case: the tree has a directory with a directory and a file as children, and
\* one with two files whose names differ in letter case.
C27_Witness ==
  /\ tree # NoTree
  /\ \E d \in DirNodes(tree) :
       \E i, j \in 1..Len(d.children) :
         d.children[i].isDirectory /\ ~d.children[j].isDirectory
  /\ \E d \in DirNodes(tree) :
       \E i, j \in 1..Len(d.children) :
         /\ d.children[i].name = <<"notes", "txt">>
         /\ d.children[j].name = <<"README", "md">>

\* ------------------------------------------------------------ claims: what a push collects

\* C28: the files a push has collected for upload hold no .json file and no .txt
\* file of more than 50 KiB.
C28_CollectSkipsJsonAndBigTxt ==
  \A i \in 1..Len(files) :
    /\ ~HasExtensionIn(files[i].path, {"json"})
    /\ ~(HasExtensionIn(files[i].path, {"txt"}) /\ TextSize(files[i].content) > 50 * 1024)

\* ------------------------------------------------------------ claims: auto-preview

\* The files of the window that can be previewed, in the order they were reported.
Previewable == SelectSeq(reported, LAMBDA f : PreviewExt(f) \in allPreviewExts)

\* The most recently reported image of the window if it has one, else its most
\* recently reported file.
MostRecent ==
  LET images == SelectSeq(Previewable, LAMBDA f : PreviewExt(f) \in imageExts)
  IN IF Len(images) > 0 THEN images[Len(images)] ELSE Previewable[Len(Previewable)]

\* C29: when the debounce window closes, the file chosen is the image reported last
\* in the window if an image was reported, otherwise the file reported last, and
\* the collection is emptied.
C29_LatestImageElseLatest ==
  [][ DebounceFire => (bestFile' = << MostRecent >> /\ pendingPreviewFiles' = <<>>) ]_vars

\* ------------------------------------------------------------ claims: terminal list

\* C30: whatever terminals were added, closed and cleared, the list of terminals is
\* not empty and no id is in it twice.
C30_NonEmptyDistinct ==
  /\ Len(terminals) >= 1
  /\ \A i, j \in 1..Len(terminals) : terminals[i] = terminals[j] => i = j

\* C30's case: the only terminal left was closed and a new one has taken its place
\* (the active id is still the closed one's), after terminals were added.
C30_Witness ==
  /\ Len(terminals) = 1
  /\ terminals[1] = terminalIdCounter
  /\ activeTerminalId # terminals[1]
  /\ terminalIdCounter > 3

\* C31: whatever terminals were added, closed and cleared, the active id is the id of
\* a terminal of the list, so that one terminal is displayed.
C31_ActiveIsListed ==
  \E i \in 1..Len(terminals) : terminals[i] = activeTerminalId

\* ------------------------------------------------------------ claims: watch effect

\* C32: a component has at most one open /ws/watch socket, no socket was created by
\* a reconnect timer after the cleanup of its effect, and a change event is handled
\* at most once.
C32_OneWatchSocket ==
  /\ Cardinality({i \in 1..Len(watchSockets) : watchSockets[i].state = "open"}) <= 1
  /\ \A i \in 1..Len(watchSockets) : ~watchSockets[i].late
  /\ handled <= 1

\* ------------------------------------------------------------ claims: auto-sync

\* C33: at most one /api/sync/full request is in flight, and the responses are taken
\* in the order in which the requests were made.
C33_OneSyncInFlight ==
  /\ Cardinality({i \in 1..Len(syncCalls) : syncCalls[i].state = "flight"}) <= 1
  /\ \A j, k \in 1..Len(applied) : j < k => applied[j] < applied[k]

\* C34: the vector in use is empty or was taken from a response of the codespace now
\* selected.
C34_VectorOfSelected ==
  lastSyncFrom # <<>> => lastSyncFrom[1] = selectedUrl

\* ------------------------------------------------------------ claims: where a scan deletes

\* C35: no step removes a file that lies below the project's input_folder or
\* output_folder, whatever the names of the directories on its path.
C35_DataFoldersKept ==
  [][ \A p \in DOMAIN disk :
        p[1] \in { <<"input_folder">>, <<"output_folder">> } => p \in DOMAIN disk' ]_vars

\* ------------------------------------------------------------ claims: what a pull leaves alone

\* The paths of the listing of the pull.
Listed == { scripts[i].path : i \in 1..Len(scripts) }

\* The remote's file p is newer than the vector's entry, floored to whole seconds.
Newer(p) ==
  \E i \in 1..Len(scripts) :
    scripts[i].path = p /\ Floor(scripts[i].modified) > Floor(lastSync[p])

\* C36: a pull that has returned removed no key of the vector, and every entry whose
\* path is not in the remote listing or whose remote time is not newer has kept its
\* value and was not written locally.
C36_PullKeepsOtherEntries ==
  pullPc = "returned" =>
    \A p \in DOMAIN lastSync :
      /\ p \in DOMAIN pullResult.lastSync
      /\ (p \notin Listed \/ ~Newer(p)) =>
           (pullResult.lastSync[p] = lastSync[p] /\ p \notin pullWritten)

\* ------------------------------------------------------------ claims: preview loader

\* C37: at most one load is in flight, and once nothing is left to do (no load is
\* running and no timer is set) the file displayed is the file requested last.
C37_LastRequestedShown ==
  /\ inFlightLoads <= 1
  /\ (~isAutoPreviewingRef /\ retryTimers = <<>> /\ lastRequested # "")
       => selectedFile = lastRequested

\* ------------------------------------------------------------ the dataframe viewer

\* Rows are counted in chunks of CHUNK_SIZE rows; a load-more asks for one chunk.
MaxViewRequests == 3

\* The chunks of the file, and of the file under a filter.
FileRows == 3
FilteredRows == 2

\* How far above the loaded end the last rendered row may be for a load-more
\* (stopIndex < loadedUpTo - 50 returns), in chunks.
ScrollMargin == 1

FilterSets == {<<>>, <<"a">>}
SortColumns == {<<>>, <<"col">>}

\* A filter or a sort is set in the viewer.
QueryActive == filters # <<>> \/ sortConfig # <<>>

\* /api/dataframe/rows?filePath=&offset=&limit=: the request names no filter and no sort.
RowsRequest(offset) == [kind |-> "rows", filters |-> <<>>, sort |-> <<>>, offset |-> offset]

\* POST /api/dataframe/query with {filePath, filters, sort}.
QueryRequest(newFilters, newSort) ==
  [kind |-> "query", filters |-> newFilters, sort |-> newSort, offset |-> 0]

\* The rows that match a request, and the rows of one answer to it.
Matching(request) == IF request.filters = <<>> THEN FileRows ELSE FilteredRows

RowsOf(request, n) == [k \in 1..n |-> << request.filters, request.sort >>]

\* handleRowsRendered up to its await.
handleRowsRendered(stopIndex) ==
  /\ ~isLoadingMore
  /\ loadedUpTo < totalRows
  /\ ~(stopIndex < loadedUpTo - ScrollMargin)
  /\ Len(viewRequests) < MaxViewRequests
  /\ isLoadingMore' = TRUE
  /\ viewRequests' = Append(viewRequests, RowsRequest(loadedUpTo))
  /\ UNCHANGED << rows, totalRows, loadedUpTo, filters, sortConfig,
                  syncVars, scanVars, runVars, besideView >>

\* handleRowsRendered after its await: the rows of the answer are appended.
RowsReturned(i, ok) ==
  /\ i \in 1..Len(viewRequests)
  /\ viewRequests[i].kind = "rows"
  /\ LET request == viewRequests[i]
         n == IF request.offset < Matching(request) THEN 1 ELSE 0
     IN IF ok /\ n > 0
        THEN /\ rows' = rows \o RowsOf(request, n)
             /\ loadedUpTo' = loadedUpTo + n
             /\ totalRows' = Matching(request)
        ELSE UNCHANGED << rows, loadedUpTo, totalRows >>
  /\ isLoadingMore' = FALSE
  /\ viewRequests' = SubSeq(viewRequests, 1, i - 1) \o SubSeq(viewRequests, i + 1, Len(viewRequests))
  /\ UNCHANGED << filters, sortConfig, syncVars, scanVars, runVars, besideView >>

\* applyFilterSort up to its await.
applyFilterSort(newFilters, newSort) ==
  viewRequests' = Append(viewRequests, QueryRequest(newFilters, newSort))

\* applyFilter and clearFilter: the filters are set and the query is sent.
ApplyFilter(newFilters) ==
  /\ Len(viewRequests) < MaxViewRequests
  /\ newFilters # filters
  /\ filters' = newFilters
  /\ applyFilterSort(newFilters, sortConfig)
  /\ UNCHANGED << rows, totalRows, isLoadingMore, loadedUpTo, sortConfig,
                  syncVars, scanVars, runVars, besideView >>

\* handleSort: the sort is set and the query is sent.
handleSort(col) ==
  /\ Len(viewRequests) < MaxViewRequests
  /\ sortConfig' = col
  /\ applyFilterSort(filters, col)
  /\ UNCHANGED << rows, totalRows, isLoadingMore, loadedUpTo, filters,
                  syncVars, scanVars, runVars, besideView >>

\* applyFilterSort after its await: the answer of n chunks replaces the rows.
QueryReturned(i, ok, n) ==
  /\ i \in 1..Len(viewRequests)
  /\ viewRequests[i].kind = "query"
  /\ n \in 1..Matching(viewRequests[i])
  /\ IF ok
     THEN /\ rows' = RowsOf(viewRequests[i], n)
          /\ totalRows' = Matching(viewRequests[i])
          /\ loadedUpTo' = n
     ELSE UNCHANGED << rows, totalRows, loadedUpTo >>
  /\ viewRequests' = SubSeq(viewRequests, 1, i - 1) \o SubSeq(viewRequests, i + 1, Len(viewRequests))
  /\ UNCHANGED << isLoadingMore, filters, sortConfig, syncVars, scanVars, runVars, besideView >>

\* The viewer opens a file: content.data is its first chunk.
InitView ==
  /\ remote = EmptyMap
  /\ appFolder = EmptyMap
  /\ SyncIdle
  /\ ScanIdle
  /\ RunIdle
  /\ IdleBesideView
  /\ rows = RowsOf(RowsRequest(0), 1)
  /\ totalRows = FileRows
  /\ isLoadingMore = FALSE
  /\ loadedUpTo = 1
  /\ filters = <<>>
  /\ sortConfig = <<>>
  /\ viewRequests = <<>>

NextView ==
  \/ \E stopIndex \in 0..FileRows : handleRowsRendered(stopIndex)
  \/ \E i \in 1..Len(viewRequests), ok \in BOOLEAN : RowsReturned(i, ok)
  \/ \E newFilters \in FilterSets : ApplyFilter(newFilters)
  \/ \E col \in SortColumns \ {<<>>} : handleSort(col)
  \/ \E i \in 1..Len(viewRequests), ok \in BOOLEAN, n \in 1..FileRows : QueryReturned(i, ok, n)

SpecView == InitView /\ [][NextView]_vars

\* ------------------------------------------------------------ connecting to the codespace

MaxConnects == 2

\* if (attempts > 120): the last argument with which pollForReady still polls.
MaxAttempts == 120

\* A slip: one more poll before giving up.
TimedOut_late(n) == n > MaxAttempts + 1

\* pollForReady gives up.
TimedOut(n) == n > MaxAttempts

\* handleConnect up to its first await or to the first timer: the button is disabled
\* while connecting or connected.
handleConnect(available) ==
  /\ ~isConnecting
  /\ ~isConnected
  /\ connectCalls < MaxConnects
  /\ connectCalls' = connectCalls + 1
  /\ isConnecting' = TRUE
  /\ syncStatus' = "syncing"
  /\ pollPhase' = IF available THEN "timer" ELSE "starting"
  /\ attempts' = 0
  /\ polls' = 0
  /\ UNCHANGED << isConnected, syncVars, scanVars, runVars, besideConnect >>

\* startCodespace returns or throws: the first poll is scheduled, or the catch of
\* handleConnect ends the attempt.
StartReturned(ok) ==
  /\ pollPhase = "starting"
  /\ IF ok
     THEN /\ pollPhase' = "timer"
          /\ UNCHANGED << isConnecting, syncStatus >>
     ELSE /\ pollPhase' = "none"
          /\ isConnecting' = FALSE
          /\ syncStatus' = "error"
  /\ UNCHANGED << isConnected, attempts, polls, connectCalls,
                  syncVars, scanVars, runVars, besideConnect >>

\* The timer fires and pollForReady(attempts) runs up to its await: it gives up, or
\* loads the codespaces and asks for the health of the sync server.
PollFire ==
  /\ pollPhase = "timer"
  /\ IF TimedOut(attempts)
     THEN /\ isConnecting' = FALSE
          /\ syncStatus' = "error"
          /\ pollPhase' = "none"
          /\ UNCHANGED polls
     ELSE /\ pollPhase' = "polling"
          /\ polls' = polls + 1
          /\ UNCHANGED << isConnecting, syncStatus >>
  /\ UNCHANGED << isConnected, attempts, connectCalls,
                  syncVars, scanVars, runVars, besideConnect >>

\* checkSyncServer returns: true for a healthy answer, false for every other answer
\* and for a failed request.
HealthReturned(connected) ==
  /\ pollPhase = "polling"
  /\ IF connected
     THEN /\ isConnected' = TRUE
          /\ isConnecting' = FALSE
          /\ syncStatus' = "success"
          /\ pollPhase' = "none"
          /\ UNCHANGED attempts
     ELSE /\ pollPhase' = "timer"
          /\ attempts' = attempts + 1
          /\ UNCHANGED << isConnected, isConnecting, syncStatus >>
  /\ UNCHANGED << polls, connectCalls, syncVars, scanVars, runVars, besideConnect >>

\* handleSelectCodespace: another codespace is selected and isConnected is cleared.
ConnectionCleared ==
  /\ isConnected
  /\ isConnected' = FALSE
  /\ UNCHANGED << isConnecting, syncStatus, pollPhase, attempts, polls, connectCalls,
                  syncVars, scanVars, runVars, besideConnect >>

InitConnect ==
  /\ remote = EmptyMap
  /\ appFolder = EmptyMap
  /\ SyncIdle
  /\ ScanIdle
  /\ RunIdle
  /\ OtherIdle

ConnectProgress ==
  \/ \E ok \in BOOLEAN : StartReturned(ok)
  \/ PollFire
  \/ \E connected \in BOOLEAN : HealthReturned(connected)

NextConnect ==
  \/ \E available \in BOOLEAN : handleConnect(available)
  \/ ConnectProgress
  \/ ConnectionCleared

\* Timers fire and requests are answered or fail.
SpecConnect == InitConnect /\ [][NextConnect]_vars /\ WF_vars(ConnectProgress)

\* ------------------------------------------------------------ claims: the queue drains

\* C38: every script in the queue is run in the end, however the runs before it end,
\* and a running queue ends empty with the runner idle.
C38_QueueDrains ==
  /\ \A p \in ScriptPaths :
       includes(scriptQueue, p) ~> (\E i \in 1..Len(inFlight) : inFlight[i].path = p)
  /\ isRunningRef ~> (~isRunningRef /\ scriptQueue = <<>> /\ inFlight = <<>>)

\* C38's case: the first script's run failed for a missing module, and the queue has
\* gone on to the next script, with more waiting.
C38_Witness ==
  /\ installModal.show
  /\ Len(started) >= 2
  /\ installModal.scriptPath = started[1]
  /\ isRunningRef
  /\ inFlight # <<>>

\* ------------------------------------------------------------ claims: the dataframe viewer

\* C39: while a filter or a sort is set and its query is answered, the rows that a
\* load-more appends were computed with that filter and sort.
C39_LoadMoreKeepsFilter ==
  [][ \A i \in 1..Len(viewRequests) :
        (/\ RowsReturned(i, TRUE)
         /\ QueryActive
         /\ \A j \in 1..Len(viewRequests) : viewRequests[j].kind # "query")
          => \A k \in (Len(rows) + 1)..Len(rows') : rows'[k] = << filters, sortConfig >> ]_vars

\* ------------------------------------------------------------ claims: connecting ends

\* C40: a connect attempt ends; it ends connected on a healthy answer, or with the
\* error status after more than MaxAttempts failed polls (or when the codespace did
\* not start), it makes at most MaxAttempts + 1 health polls, and once it has ended
\* no poll of it is scheduled or under way.
C40_PollingEnds ==
  /\ isConnecting ~> ~isConnecting
  /\ [](~isConnecting => pollPhase = "none")
  /\ [](polls <= MaxAttempts + 1)
  /\ [][ (isConnecting /\ ~isConnecting')
           => \/ isConnected' /\ syncStatus' = "success" /\ pollPhase = "polling"
              \/ /\ syncStatus' = "error"
                 /\ ~isConnected'
                 /\ \/ pollPhase = "starting"
                    \/ attempts > MaxAttempts /\ polls = MaxAttempts + 1 ]_vars

\* C40's case: every poll of a connect attempt failed and the attempt has given up.
C40_Witness ==
  /\ ~isConnecting
  /\ syncStatus = "error"
  /\ attempts = MaxAttempts + 1
  /\ polls = MaxAttempts + 1
  /\ pollPhase = "none"

====
